---- MODULE Spec2Model ----
(***************************************************************************)
(* Model of the hourly ingestion job of the Air-Quality-Prediction-Platform *)
(* (air-lambda/la-hourly-sync.js): the resilient fetch client, the          *)
(* partition planner, the batch runner, the idempotent writer and the       *)
(* checkpoint store, with the backing store shared by several deployed      *)
(* functions.                                                               *)
(***************************************************************************)
EXTENDS Integers, Sequences, FiniteSets, TLC

(***************************************************************************)
(* Bounds of the model                                                      *)
(***************************************************************************)
NumInv == 2            \* deployed functions (invocation slots) in the concurrent specification
NumStations == 5       \* station documents in the store
MaxTick == 2           \* the wall clock runs over FirstTick..MaxTick
SmallStations == 4     \* station documents where invocations repeat or overlap
MaxRuns == 2           \* invocations of one function where invocations repeat
MaxT == 7              \* planner: largest population drawn
MaxW == 4              \* planner: largest window drawn

(***************************************************************************)
(* Program constants                                                        *)
(***************************************************************************)
batchSize == 3                 \* la-hourly-sync.js:331
DefaultMaxRetries == 3         \* la-hourly-sync.js:16
DefaultMaxStationsPerRun == 50 \* la-hourly-sync.js:237
TicksPerHour == 2              \* clock granularity: two ticks in one clock hour
FirstTick == 1                 \* the clock starts in the second half of an hour
Null == -7                     \* JS null, as a value of a reading
Undefined == -8                \* JS undefined (absent field)
MissingId == -9                \* a station document without an id field
SensorDefaultValue == -1       \* models/Sensor.js: value default
RealValue == 120               \* a value observed upstream (tenths of a unit)

Invs == 1..NumInv
JOB_ID == "LA_HOURLY_SYNC"

Min(a, b) == IF a <= b THEN a ELSE b
Max(a, b) == IF a >= b THEN a ELSE b
\* Math.ceil(a / b) for a >= 0, b > 0
Ceil(a, b) == (a + b - 1) \div b
\* Array.prototype.slice(start, end) for 0 <= start, 0 <= end
JsSlice(s, start, end) ==
  LET lo == Min(start, Len(s))
      hi == Min(end, Len(s))
  IN  IF lo >= hi THEN <<>> ELSE [x \in 1..(hi - lo) |-> s[lo + x]]

(***************************************************************************)
(* The aligned hour: new Date(); setMinutes(0, 0, 0)                        *)
(***************************************************************************)
AlignHour(t) == t - (t % TicksPerHour)

(***************************************************************************)
(* Store content that the job never changes: the station documents and the  *)
(* sensors each owns.  Station n of the collection:                         *)
(*   n % 5 = 1  id 100+n, in LA, one pm25 sensor                            *)
(*   n % 5 = 2  id 0,     in LA, no sensor                                  *)
(*   n % 5 = 3  id 100+n, outside the LA bounds                             *)
(*   n % 5 = 4  no id,    in LA, one co sensor                              *)
(*   n % 5 = 0  id 100+n, in LA, two o3 sensors                             *)
(***************************************************************************)
StationIds == 1..Max(NumStations, 5 * SmallStations)
StationExtId(n) ==
  CASE n % 5 = 2 -> 0
    [] n % 5 = 4 -> MissingId
    [] OTHER -> 100 + n
isInLosAngeles(n) == n % 5 # 3
\* sensors are numbered 10*station + ordinal
SensorsOf(n) ==
  CASE n % 5 = 1 -> <<10 * n + 1>>
    [] n % 5 = 4 -> <<10 * n + 1>>
    [] n % 5 = 0 -> <<10 * n + 1, 10 * n + 2>>
    [] OTHER -> <<>>
SeqRange(s) == {s[x] : x \in 1..Len(s)}
SensorIds == UNION {SeqRange(SensorsOf(n)) : n \in StationIds}
SensorStation(s) == s \div 10
ParamName(s) ==
  CASE SensorStation(s) % 5 = 1 -> "pm25"
    [] SensorStation(s) % 5 = 0 -> "o3"
    [] OTHER -> "co"
\* sensor.openaqSensorId || sensor.id : the documents carry no openaqSensorId
SensorKey(s) == s
\* an upstream sensor id that no local sensor has
ForeignSensor == 0

(***************************************************************************)
(* Resilient fetch client: fetchWithRetry and getLatestMeasurements.        *)
(* A response is what the network answers to one call:                      *)
(*   kind "neterr"  the call rejects (network error, timeout)               *)
(*   kind "http"    a non-2xx status                                        *)
(*   kind "badjson" a 2xx status whose body response.json() rejects         *)
(*   kind "ok"      a 2xx status with a body that parses                    *)
(* body.hasResults is FALSE when the parsed body has no results field.      *)
(***************************************************************************)
FailureKinds == {"neterr", "http", "badjson"}
NoBody == [hasResults |-> FALSE, results |-> <<>>]
Failure(kind) == [kind |-> kind, body |-> NoBody]
Ok(results) == [kind |-> "ok", body |-> [hasResults |-> TRUE, results |-> results]]
OkNoResults == [kind |-> "ok", body |-> NoBody]
NoError == [kind |-> "none", call |-> 0]

\* Math.pow(2, n)
RECURSIVE Pow2(_)
Pow2(n) == IF n <= 0 THEN 1 ELSE 2 * Pow2(n - 1)
\* a delay that grows by a fixed step
BackoffDelayMs_linear(attempt) == 1000 * attempt
\* const delayMs = 2000 * Math.pow(2, attempt)
BackoffDelayMs(attempt) == 2000 * Pow2(attempt)
\* response.ok
ResponseOk(r) == r.kind \in {"ok", "badjson"}
JsonParses_always(r) == TRUE
\* return await response.json() : rejects on a body that does not parse
JsonParses(r) == r.kind = "ok"

\* the for loop of fetchWithRetry, entered with the loop variable `attempt`.
\* responses[n] is the answer to the n-th call.  The result records the calls
\* issued, the waits taken, and either the parsed body or the error thrown.
RECURSIVE FetchLoop(_, _, _, _, _)
FetchLoop(responses, maxRetries, attempt, lastError, waits) ==
  IF attempt >= maxRetries
  THEN [threw |-> TRUE, error |-> lastError, body |-> NoBody,
        calls |-> attempt, waits |-> waits]
  ELSE LET w == IF attempt > 0 THEN Append(waits, BackoffDelayMs(attempt)) ELSE waits
           r == responses[attempt + 1]
       IN  IF ResponseOk(r) /\ JsonParses(r)
           THEN [threw |-> FALSE, error |-> NoError, body |-> r.body,
                 calls |-> attempt + 1, waits |-> w]
           ELSE FetchLoop(responses, maxRetries, attempt + 1,
                          [kind |-> r.kind, call |-> attempt + 1], w)
fetchWithRetry(responses, maxRetries) ==
  FetchLoop(responses, maxRetries, 0, NoError, <<>>)

\* getLatestMeasurements: data.results || [] ; [] when fetchWithRetry throws
getLatestMeasurements(responses) ==
  LET data == fetchWithRetry(responses, DefaultMaxRetries)
  IN  IF data.threw THEN <<>>
      ELSE IF data.body.hasResults THEN data.body.results ELSE <<>>

(***************************************************************************)
(* State                                                                    *)
(***************************************************************************)
VARIABLES
  now,                 \* the wall clock, in ticks
  env,                 \* env[p]: the environment of deployed function p
  triggers,            \* triggers[p]: invocations of p the schedule still fires
  stations,            \* collection `stations`: the documents, in natural order
  sensors,             \* collection `sensors`: sensor _id -> its mutable fields
  hourlymeasurements,  \* collection `hourlymeasurements`, in insertion order
  lambjobprogress,     \* collection `lambjobprogress`: the checkpoint documents
  status,              \* status[p]: "idle", "running", "returned" or "killed"
  pc,                  \* pc[p]: the await the invocation of p is suspended at
  hf,                  \* hf[p]: the locals of exports.handler
  sf,                  \* sf[p]: the locals of processStation
  ret,                 \* ret[p]: the value the invocation returns
  fetchIn,             \* fetch client alone: the responses and maxRetries drawn
  fetchOut,            \* fetch client alone: what fetchWithRetry gave
  plan,                \* planner alone: population, window, offset, slices so far
  mt,                  \* site matcher alone: the two site lists and what the run did with them
  par,                 \* parallel batch loop alone: its position and the sites in flight
  al                   \* hour alignment alone: two instants and their aligned timestamps

vars == <<now, env, triggers, stations, sensors, hourlymeasurements, lambjobprogress,
          status, pc, hf, sf, ret, fetchIn, fetchOut, plan, mt, par, al>>
storeVars == <<stations, sensors, hourlymeasurements, lambjobprogress>>
jobVars == <<now, env, triggers, stations, sensors, hourlymeasurements, lambjobprogress,
             status, pc, hf, sf, ret>>

(***************************************************************************)
(* Partition planner (the paging logic of exports.handler)                  *)
(***************************************************************************)
\* parseInt(process.env.X || dflt, 10) for an unset or a numeric variable
ParseEnvInt(v, dflt) == IF v = Undefined THEN dflt ELSE v
\* const endOffset = Math.min(STATIONS_OFFSET + MAX_STATIONS_PER_RUN, totalStations)
EndOffset_overlapping(totalStations, offset, maxPerRun) ==
  Min(offset + maxPerRun + 1, totalStations)
EndOffset(totalStations, offset, maxPerRun) == Min(offset + maxPerRun, totalStations)
\* isComplete: endOffset >= totalStations
IsComplete(totalStations, endOffset) == endOffset >= totalStations
NextOffset_skipping(totalStations, endOffset) ==
  IF endOffset >= totalStations THEN 0 ELSE endOffset + 1
\* nextOffset: endOffset >= totalStations ? 0 : endOffset
NextOffset(totalStations, endOffset) ==
  IF endOffset >= totalStations THEN 0 ELSE endOffset
\* the paging block of the results object
Paging(totalStations, offset, maxPerRun) ==
  LET endOffset == EndOffset(totalStations, offset, maxPerRun)
      count == Len(JsSlice([x \in 1..totalStations |-> x], offset, endOffset))
  IN  [totalStations |-> totalStations,
       processedOffset |-> offset,
       processedCount |-> count,
       remainingStations |-> totalStations - endOffset,
       isComplete |-> IsComplete(totalStations, endOffset)]

(***************************************************************************)
(* Results of one run                                                       *)
(***************************************************************************)
Reasons == {"missing_id", "no_data", "no_sensors", "no_new_data", "error", "unknown"}
NoPaging == [totalStations |-> 0, processedOffset |-> 0, processedCount |-> 0,
             remainingStations |-> 0, isComplete |-> FALSE]
NoResults == [total |-> 0, successful |-> 0, failed |-> 0,
              failureReasons |-> [r \in Reasons |-> 0],
              sensorsProcessed |-> 0, recordsCreated |-> 0, paging |-> NoPaging]
\* const results = { total: laStations.length, successful: 0, ... }
InitResults(total, totalStations, offset, maxPerRun) ==
  [NoResults EXCEPT !.total = total,
                    !.paging = Paging(totalStations, offset, maxPerRun)]

\* what processStation returns.  The fields of `of` are not part of the JS
\* value: they record which station the result is of, which of its sensors
\* had no reading with a value in the payload, and whether the fetch of the
\* payload failed on every attempt.
StationResult(success, reason, sp, rc, err, of) ==
  [success |-> success, reason |-> reason, sensorsProcessed |-> sp,
   recordsCreated |-> rc, error |-> err, station |-> of.station,
   lacking |-> of.lacking, fetchFailed |-> of.fetchFailed]

\* an aggregation that counts a failed site without recording its reason
RECURSIVE Aggregate_untallied(_, _)
Aggregate_untallied(results, batchResults) ==
  IF batchResults = <<>> THEN results
  ELSE LET r == Head(batchResults)
           next ==
             IF r.success
             THEN [results EXCEPT !.successful = @ + 1,
                                  !.sensorsProcessed = @ + r.sensorsProcessed,
                                  !.recordsCreated = @ + r.recordsCreated]
             ELSE [results EXCEPT !.failed = @ + 1]
       IN  Aggregate_untallied(next, Tail(batchResults))
\* for (const result of batchResults) { ... }
RECURSIVE Aggregate(_, _)
Aggregate(results, batchResults) ==
  IF batchResults = <<>> THEN results
  ELSE LET r == Head(batchResults)
           next ==
             IF r.success
             THEN [results EXCEPT !.successful = @ + 1,
                                  !.sensorsProcessed = @ + r.sensorsProcessed,
                                  !.recordsCreated = @ + r.recordsCreated]
             ELSE [results EXCEPT !.failed = @ + 1,
                                  !.failureReasons[r.reason] = @ + 1]
       IN  Aggregate(next, Tail(batchResults))

(***************************************************************************)
(* Frames                                                                   *)
(***************************************************************************)
IdleH == [offset |-> 0, maxPerRun |-> 0, totalStations |-> 0, endOffset |-> 0,
          laStations |-> <<>>, startTime |-> 0, currentTime |-> 0,
          results |-> NoResults, i |-> 0, j |-> 0, batchResults |-> <<>>,
          out |-> <<>>, upserts |-> 0]
IdleS == [station |-> 0, latestData |-> <<>>, sensors |-> <<>>, k |-> 0,
          value |-> Null, isSimulated |-> FALSE, stationDataUpdated |-> FALSE,
          sensorsProcessed |-> 0, recordsCreated |-> 0, fetchFailed |-> FALSE,
          existingRecord |-> FALSE]
\* hasStats: the returned body has a `stats` key (stats is its value, the zero
\* counts standing in where the body has none)
NoRet == [statusCode |-> 0, error |-> "", message |-> "", stats |-> NoResults,
          hasStats |-> FALSE]

(***************************************************************************)
(* Value resolution of the writer                                           *)
(***************************************************************************)
\* Math.random() in tenths: 0.0 .. 0.9 ; the model draws the two ends
RandScale == 10
Rands == {0, RandScale - 1}
\* a generator whose pm25 and default branches overshoot their ranges
generateSimulatedValue_overshooting(paramName, r) ==
  CASE paramName = "pm25" -> r * 60 + 50
    [] paramName = "pm10" -> r * 50 + 100
    [] paramName = "o3" -> r * 80 + 100
    [] paramName = "no2" -> r * 50 + 50
    [] paramName = "so2" -> r * 20 + 10
    [] paramName = "co" -> r * 8 + 2
    [] OTHER -> r * 50 + 50
\* generateSimulatedValue, in tenths of a unit, for the draw r (tenths)
generateSimulatedValue(paramName, r) ==
  CASE paramName = "pm25" -> r * 40 + 50
    [] paramName = "pm10" -> r * 50 + 100
    [] paramName = "o3" -> r * 60 + 100
    [] paramName = "no2" -> r * 50 + 50
    [] paramName = "so2" -> r * 20 + 10
    [] paramName = "co" -> r * 5 + 2
    [] OTHER -> r * 30 + 50

\* sensorDataMap[sensorId]: the last reading of the payload with that sensorsId
ReadingIndexes(latestData, sensorId) ==
  {x \in 1..Len(latestData) : latestData[x].sensorsId = sensorId}
HasEntry(latestData, sensorId) == ReadingIndexes(latestData, sensorId) # {}
EntryValue(latestData, sensorId) ==
  LET idx == ReadingIndexes(latestData, sensorId)
  IN  latestData[CHOOSE x \in idx : \A y \in idx : y <= x].value
HasRealValue_anyEntry(latestData, sensorId) == HasEntry(latestData, sensorId)
\* if (measurement && measurement.value !== undefined)
HasRealValue(latestData, sensorId) ==
  HasEntry(latestData, sensorId) /\ EntryValue(latestData, sensorId) # Undefined
\* the sensors of a station for which the payload has no reading with a value
Lacking(latestData, station) ==
  {x \in SeqRange(SensorsOf(station)) : ~HasRealValue(latestData, SensorKey(x))}

\* if (!station.id && station.id !== 0)
Falsy(v) == v \in {0, Null, Undefined, MissingId}
MissingStationId(station) ==
  Falsy(StationExtId(station)) /\ StationExtId(station) # 0

(***************************************************************************)
(* Store operations                                                         *)
(***************************************************************************)
\* measurementCollection.findOne({station, 'parameter.name', timestamp})
MatchesKey(m, station, paramName, timestamp) ==
  m.station = station /\ m.parameterName = paramName /\ m.timestamp = timestamp
\* a writer without the existence check
existingRecord_unchecked(coll, station, paramName, timestamp) == FALSE
existingRecord(coll, station, paramName, timestamp) ==
  \E x \in 1..Len(coll) : MatchesKey(coll[x], station, paramName, timestamp)
\* the document of measurementCollection.insertOne ; `by` is not a field of the
\* document: it records the function whose invocation inserted it
\* a document stamped with the aligned hour of the moment it is inserted
MeasurementDoc_alignedAtInsert(p, station, sensor, value, isSimulated, currentTime, createdAt) ==
  [station |-> station, parameterName |-> ParamName(sensor), value |-> value,
   isSimulated |-> isSimulated, timestamp |-> AlignHour(createdAt),
   createdAt |-> createdAt, by |-> p]
MeasurementDoc(p, station, sensor, value, isSimulated, currentTime, createdAt) ==
  [station |-> station, parameterName |-> ParamName(sensor), value |-> value,
   isSimulated |-> isSimulated, timestamp |-> currentTime,
   createdAt |-> createdAt, by |-> p]
\* an update that leaves the value and the flag of the Sensor as created
SensorSet_timeOnly(value, lastUpdated, isSimulated) ==
  [value |-> SensorDefaultValue, lastUpdated |-> lastUpdated, isSimulated |-> FALSE]
\* sensorCollection.updateOne({_id}, {$set: {value, lastUpdated, isSimulated}})
SensorSet(value, lastUpdated, isSimulated) ==
  [value |-> value, lastUpdated |-> lastUpdated, isSimulated |-> isSimulated]
ProgressDoc_zeroBased(h, lastRunTime) ==
  [_id |-> JOB_ID,
   lastRunTime |-> lastRunTime,
   lastOffset |-> h.offset,
   nextOffset |-> NextOffset(h.totalStations, h.endOffset),
   totalStations |-> h.totalStations,
   batchesCompleted |-> h.i \div batchSize,
   totalBatches |-> Ceil(h.totalStations, batchSize),
   isFullyComplete |-> IsComplete(h.totalStations, h.endOffset)]
\* the $set of progressCollection.updateOne({_id: 'LA_HOURLY_SYNC'}, ..., {upsert})
ProgressDoc(h, lastRunTime) ==
  [_id |-> JOB_ID,
   lastRunTime |-> lastRunTime,
   lastOffset |-> h.offset,
   nextOffset |-> NextOffset(h.totalStations, h.endOffset),
   totalStations |-> h.totalStations,
   batchesCompleted |-> (h.i \div batchSize) + 1,
   totalBatches |-> Ceil(h.totalStations, batchSize),
   isFullyComplete |-> IsComplete(h.totalStations, h.endOffset)]
Upsert_inserting(coll, doc) == coll \cup {doc}
\* updateOne({_id}, {$set: doc}, {upsert: true}): the fields of doc are set on
\* the document with that _id, its other fields are kept; without such a
\* document doc is inserted
Upsert(coll, doc) ==
  IF \E d \in coll : d._id = doc._id
  THEN {IF d._id = doc._id
        THEN [f \in (DOMAIN d) \cup (DOMAIN doc) |->
                IF f \in DOMAIN doc THEN doc[f] ELSE d[f]]
        ELSE d : d \in coll}
  ELSE coll \cup {doc}

(***************************************************************************)
(* Control flow of exports.handler and processStation between two awaits.   *)
(* Each operator gives the await the invocation suspends at next (pc), its  *)
(* frames, and the value it is about to return (ret, once pc = "close").    *)
(***************************************************************************)
Ctl(c, h, s, r) == [pc |-> c, hf |-> h, sf |-> s, ret |-> r]

\* return { statusCode: 200, body: { message, ..., stats: results } }
Finish(h) ==
  Ctl("close", h, IdleS,
      [statusCode |-> 200, error |-> "",
       message |-> "Los Angeles data collection completed successfully",
       stats |-> h.results, hasStats |-> TRUE])
\* catch (error) { return { statusCode: 500, body: { error, message } } }
Thrown(h, msg) ==
  Ctl("close", h, IdleS,
      [statusCode |-> 500, error |-> "Data collection failed",
       message |-> msg, stats |-> NoResults, hasStats |-> FALSE])
\* return { statusCode: 404, ... } : no station in Los Angeles
NoStations(h) ==
  Ctl("close", h, IdleS,
      [statusCode |-> 404, error |-> "",
       message |-> "No stations found in Los Angeles, please check the database",
       stats |-> NoResults, hasStats |-> FALSE])

Of(s) == [station |-> s.station, lacking |-> Lacking(s.latestData, s.station),
          fetchFailed |-> s.fetchFailed]
\* a classification by the sensors processed instead of the records created
ReturnOf_byProcessed(s) ==
  StationResult(s.sensorsProcessed > 0,
                IF s.sensorsProcessed > 0 THEN "success" ELSE "no_new_data",
                s.sensorsProcessed, s.recordsCreated, "", Of(s))
\* return { success: stationDataUpdated, reason: ..., sensorsProcessed, recordsCreated }
ReturnOf(s) ==
  StationResult(s.stationDataUpdated,
                IF s.stationDataUpdated THEN "success" ELSE "no_new_data",
                s.sensorsProcessed, s.recordsCreated, "", Of(s))
\* catch (err) { return { success: false, reason: 'error', error: err.message } }
ErrorResult(s, msg) == StationResult(FALSE, "error", 0, 0, msg, Of(s))

\* a batch loop that gives up at the first site whose fetch or processing failed
AfterResult_stopsAtFailure(h, r) ==
  LET h1 == [h EXCEPT !.batchResults = Append(@, r), !.out = Append(@, r)]
      batchStations == JsSlice(h.laStations, h.i, h.i + batchSize)
  IN  IF r.fetchFailed \/ r.reason = "error"
      THEN Thrown(h1, "site failed")
      ELSE IF h.j + 1 < Len(batchStations)
      THEN Ctl("stationDelay", [h1 EXCEPT !.j = @ + 1], IdleS, NoRet)
      ELSE Ctl(IF h.i + batchSize < Len(h.laStations) THEN "batchDelay" ELSE "progress",
               [h1 EXCEPT !.results = Aggregate(@, h1.batchResults)], IdleS, NoRet)
\* batchResults.push(result), then the rest of the batch loop body up to the
\* next await: the delay before the next station of the batch, or the
\* aggregation of the batch and the inter-batch delay or the progress update
AfterResult(h, r) ==
  LET h1 == [h EXCEPT !.batchResults = Append(@, r), !.out = Append(@, r)]
      batchStations == JsSlice(h.laStations, h.i, h.i + batchSize)
  IN  IF h.j + 1 < Len(batchStations)
      THEN Ctl("stationDelay", [h1 EXCEPT !.j = @ + 1], IdleS, NoRet)
      ELSE Ctl(IF h.i + batchSize < Len(h.laStations) THEN "batchDelay" ELSE "progress",
               [h1 EXCEPT !.results = Aggregate(@, h1.batchResults)], IdleS, NoRet)

\* processStation(station, ...) up to its first await
CallProcessStation(h) ==
  LET station == h.laStations[h.i + h.j + 1]
  IN  IF MissingStationId(station)
      THEN AfterResult(h, StationResult(FALSE, "missing_id", 0, 0, "",
                          [station |-> station, lacking |-> {}, fetchFailed |-> FALSE]))
      ELSE Ctl("fetch", h, [IdleS EXCEPT !.station = station], NoRet)

\* for (let i = 0; i < laStations.length; i += batchSize) : the loop test
EnterLoop(h) ==
  IF h.i < Len(h.laStations)
  THEN CallProcessStation([h EXCEPT !.j = 0, !.batchResults = <<>>])
  ELSE Finish(h)

\* for (const sensor of sensors) : from sensor s.k up to the next await.
\* rnd[k] is the draw of Math.random() used if sensor k needs a simulated value.
RECURSIVE SensorLoop(_, _, _)
\* a sensor loop that counts a sensor before looking at its value
SensorLoop_countingFirst(h, s, rnd) ==
  IF s.k > Len(s.sensors)
  THEN IF s.stationDataUpdated
       THEN Ctl("updateStation", h, s, NoRet)
       ELSE AfterResult(h, ReturnOf(s))
  ELSE LET sensor == s.sensors[s.k]
           real == HasRealValue(s.latestData, SensorKey(sensor))
           value == IF real THEN EntryValue(s.latestData, SensorKey(sensor))
                    ELSE generateSimulatedValue(ParamName(sensor), rnd[s.k])
           s1 == [s EXCEPT !.value = value, !.isSimulated = ~real,
                           !.sensorsProcessed = @ + 1]
       IN  IF value # Null
           THEN Ctl("findOne", h, s1, NoRet)
           ELSE SensorLoop(h, [s1 EXCEPT !.k = @ + 1], rnd)
SensorLoop(h, s, rnd) ==
  IF s.k > Len(s.sensors)
  THEN IF s.stationDataUpdated
       THEN Ctl("updateStation", h, s, NoRet)
       ELSE AfterResult(h, ReturnOf(s))
  ELSE LET sensor == s.sensors[s.k]
           real == HasRealValue(s.latestData, SensorKey(sensor))
           value == IF real THEN EntryValue(s.latestData, SensorKey(sensor))
                    ELSE generateSimulatedValue(ParamName(sensor), rnd[s.k])
           s1 == [s EXCEPT !.value = value, !.isSimulated = ~real]
       IN  IF value # Null
           THEN Ctl("findOne", h, [s1 EXCEPT !.sensorsProcessed = @ + 1], NoRet)
           ELSE SensorLoop(h, [s1 EXCEPT !.k = @ + 1], rnd)

Apply(p, c) ==
  /\ pc' = [pc EXCEPT ![p] = c.pc]
  /\ hf' = [hf EXCEPT ![p] = c.hf]
  /\ sf' = [sf EXCEPT ![p] = c.sf]
  /\ ret' = [ret EXCEPT ![p] = c.ret]

Running(p, at) == status[p] = "running" /\ pc[p] = at

(***************************************************************************)
(* Inputs drawn by the actions                                              *)
(***************************************************************************)
MaxPayload == 1        \* readings in one upstream payload
Readings(station) ==
  {[sensorsId |-> SensorKey(x), value |-> v] :
     x \in SeqRange(SensorsOf(station)), v \in {Undefined, Null, RealValue}}
  \cup {[sensorsId |-> ForeignSensor, value |-> RealValue]}
Payloads(station) == UNION {[1..n -> Readings(station)] : n \in 0..MaxPayload}
\* the answers of the upstream to the calls of one fetchWithRetry: k failures
\* of one kind, then `last`
ResponseScript(k, kind, last) ==
  [n \in 1..DefaultMaxRetries |-> IF n <= k THEN Failure(kind) ELSE last]
LastResponses(station) == {Ok(b) : b \in Payloads(station)} \cup {OkNoResults}
MaxSensors == 2
RandTapes == [1..MaxSensors -> Rands]

(***************************************************************************)
(* Actions of one invocation of function p                                  *)
(***************************************************************************)
(***************************************************************************)
(* Site matcher (air-lambda/fixed-index.js): matchStations, updateStationIds *)
(* and the handler's choice of the sites it collects data for.  A site is   *)
(* [_id, id, name]; an absent id is Undefined, an absent name is "".        *)
(***************************************************************************)
MaxLocal == 2          \* local sites drawn
MaxUpstream == 2       \* upstream sites drawn
MatchLimit == 20       \* fixed-index.js:275
\* String(id): the property key a number becomes
NumberKey(id) ==
  CASE id = 0 -> "0"
    [] id = 1 -> "1"
    [] id = 2 -> "2"
    [] OTHER -> "?"
\* station.name && ... : undefined and the empty string are both falsy
HasName(name) == name # ""
\* name.toLowerCase()
toLowerCase(name) == IF name = "Alpha" THEN "alpha" ELSE name
\* locationMap[key] = location
Put(map, key, location) ==
  [x \in (DOMAIN map) \cup {key} |-> IF x = key THEN location ELSE map[x]]
\* a lookup that keeps the first location written under a key
PutIfAbsent(map, key, location) ==
  IF key \in DOMAIN map THEN map ELSE Put(map, key, location)
RECURSIVE BuildLocationMap_firstWins(_, _)
BuildLocationMap_firstWins(openaqLocations, map) ==
  IF openaqLocations = <<>> THEN map
  ELSE LET location == Head(openaqLocations)
           m1 == IF ~Falsy(location.id)
                 THEN PutIfAbsent(map, NumberKey(location.id), location) ELSE map
           m2 == IF HasName(location.name)
                 THEN PutIfAbsent(m1, toLowerCase(location.name), location) ELSE m1
       IN  BuildLocationMap_firstWins(Tail(openaqLocations), m2)
\* for (const location of openaqLocations) { ... } : ids and lower-cased names
\* are keys of the same object
RECURSIVE BuildLocationMap(_, _)
BuildLocationMap(openaqLocations, map) ==
  IF openaqLocations = <<>> THEN map
  ELSE LET location == Head(openaqLocations)
           m1 == IF ~Falsy(location.id)
                 THEN Put(map, NumberKey(location.id), location) ELSE map
           m2 == IF HasName(location.name)
                 THEN Put(m1, toLowerCase(location.name), location) ELSE m1
       IN  BuildLocationMap(Tail(openaqLocations), m2)
EmptyMap == [x \in {} |-> 0]
\* for (const station of dbStations) { ... }
RECURSIVE MatchLoop(_, _, _, _)
MatchLoop(dbStations, locationMap, matchedStations, unmatchedStations) ==
  IF dbStations = <<>>
  THEN [matchedStations |-> matchedStations, unmatchedStations |-> unmatchedStations]
  ELSE LET station == Head(dbStations)
           rest == Tail(dbStations)
       IN  IF ~Falsy(station.id) /\ NumberKey(station.id) \in DOMAIN locationMap
           THEN MatchLoop(rest, locationMap,
                          Append(matchedStations,
                                 [dbStation |-> station,
                                  openaqLocation |-> locationMap[NumberKey(station.id)],
                                  matchType |-> "id"]),
                          unmatchedStations)
           ELSE IF HasName(station.name) /\ toLowerCase(station.name) \in DOMAIN locationMap
           THEN MatchLoop(rest, locationMap,
                          Append(matchedStations,
                                 [dbStation |-> station,
                                  openaqLocation |-> locationMap[toLowerCase(station.name)],
                                  matchType |-> "name"]),
                          unmatchedStations)
           ELSE MatchLoop(rest, locationMap, matchedStations,
                          Append(unmatchedStations, station))
matchStations(dbStations, openaqLocations) ==
  MatchLoop(dbStations, BuildLocationMap(openaqLocations, EmptyMap), <<>>, <<>>)
\* an updateStationIds that rewrites every matched site
IdUpdates_all(matchedStations) == 1..Len(matchedStations)
\* updateStationIds: the matches whose updateOne is issued
IdUpdates(matchedStations) ==
  {x \in 1..Len(matchedStations) :
     matchedStations[x].dbStation.id # matchedStations[x].openaqLocation.id}
\* matchedStations.map(match => ({...match.dbStation, id: match.openaqLocation.id}))
processStations(matchedStations) ==
  [x \in 1..Len(matchedStations) |->
     [matchedStations[x].dbStation EXCEPT !.id = matchedStations[x].openaqLocation.id]]
\* a document of the stations collection as the matcher's run sees it
NoSnapshot == [name |-> "", coordinates |-> 0, lastUpdated |-> 0]
SiteDoc(s) == [_id |-> s._id, id |-> s.id, name |-> s.name,
               lastUpdated |-> Undefined, openaqData |-> NoSnapshot]
\* openaqData: { name, coordinates, lastUpdated } of the matched upstream site
Snapshot(location) ==
  [name |-> location.name, coordinates |-> location.coordinates,
   lastUpdated |-> location.lastUpdated]
\* the stations collection after the updateOne calls of updateStationIds that
\* did not throw (ok: their positions in matchedStations)
updateStationIds(docs, matchedStations, ok, date) ==
  [x \in 1..Len(docs) |->
     IF \E y \in ok : matchedStations[y].dbStation._id = docs[x]._id
     THEN LET y == CHOOSE z \in ok : matchedStations[z].dbStation._id = docs[x]._id
              location == matchedStations[y].openaqLocation
          IN  [docs[x] EXCEPT !.id = location.id,
                              !.lastUpdated = date,
                              !.openaqData = Snapshot(location)]
     ELSE docs[x]]
NoMatch == [local |-> <<>>, upstream |-> <<>>, called |-> FALSE,
            matchedStations |-> <<>>, unmatchedStations |-> <<>>,
            issued |-> {}, updated |-> {}, stored |-> <<>>,
            limitedStations |-> <<>>, statusCode |-> 0]

(***************************************************************************)
(* Parallel batch loop (air-lambda/fixed-index.js): the sites of one batch   *)
(* are processed by the callbacks of one Promise.all; sites are numbered by  *)
(* their position in limitedStations, from 1.                                *)
(***************************************************************************)
MaxMatched == 7            \* sites in limitedStations
batchSize_fixedIndex == 5  \* fixed-index.js:279
NoPar == [total |-> 0, i |-> 0, phase |-> "none", running |-> {}, settled |-> {},
          delays |-> 0]
\* a loop that hands every remaining site to one Promise.all
ParBatch_whole(total, i) == (i + 1)..total
\* limitedStations.slice(i, i + batchSize), as positions
ParBatch(total, i) == (i + 1)..Min(i + batchSize_fixedIndex, total)
\* the for loop from its test to the next await: Promise.all(batchStations.map(
\* async ...)) starts every callback of the batch
ParLoop(q, i) ==
  IF i < q.total
  THEN [q EXCEPT !.i = i, !.phase = "batch", !.running = ParBatch(q.total, i)]
  ELSE [q EXCEPT !.i = i, !.phase = "done"]

(***************************************************************************)
(* Date arithmetic of the hour alignment.  A Date is its time value, the    *)
(* milliseconds since the epoch; the setters work on local time, the time   *)
(* value plus the zone's offset tza.                                        *)
(***************************************************************************)
msPerSecond == 1000
msPerMinute == 60 * msPerSecond
msPerHour == 60 * msPerMinute
HourFromTime(t) == t \div msPerHour
MinFromTime(t) == (t \div msPerMinute) % 60
SecFromTime(t) == (t \div msPerSecond) % 60
msFromTime(t) == t % msPerSecond
MakeTime(hour, min, sec, ms) ==
  hour * msPerHour + min * msPerMinute + sec * msPerSecond + ms
LocalTime(t, tza) == t + tza
UTC(t, tza) == t - tza
\* a setMinutes that leaves the seconds as they are
setMinutes_keepingSeconds(t, tza, min, sec, ms) ==
  LET l == LocalTime(t, tza)
  IN  UTC(MakeTime(HourFromTime(l), min, SecFromTime(l), ms), tza)
\* date.setMinutes(min, sec, ms)
setMinutes(t, tza, min, sec, ms) ==
  LET l == LocalTime(t, tza)
  IN  UTC(MakeTime(HourFromTime(l), min, sec, ms), tza)
\* date.setMinutes(min)
setMinutesOnly(t, tza, min) ==
  LET l == LocalTime(t, tza)
  IN  UTC(MakeTime(HourFromTime(l), min, SecFromTime(l), msFromTime(l)), tza)
\* date.setSeconds(sec)
setSeconds(t, tza, sec) ==
  LET l == LocalTime(t, tza)
  IN  UTC(MakeTime(HourFromTime(l), MinFromTime(l), sec, msFromTime(l)), tza)
\* date.setMilliseconds(ms)
setMilliseconds(t, tza, ms) ==
  LET l == LocalTime(t, tza)
  IN  UTC(MakeTime(HourFromTime(l), MinFromTime(l), SecFromTime(l), ms), tza)
\* const currentTime = new Date(); currentTime.setMinutes(0, 0, 0)
currentTime(t, tza) == setMinutes(t, tza, 0, 0, 0)
\* hourTime.setMinutes(0); hourTime.setSeconds(0); hourTime.setMilliseconds(0)
hourTime(t, tza) ==
  setMilliseconds(setSeconds(setMinutesOnly(t, tza, 0), tza, 0), tza, 0)
NoAlign == [a |-> 0, b |-> 0, tza |-> 0, done |-> FALSE,
            ra |-> 0, rb |-> 0, rra |-> 0, ha |-> 0]

otherVars == <<fetchIn, fetchOut, plan, mt, par, al>>
fixedVars == <<env, triggers, fetchIn, fetchOut, plan, mt, par, al>>

\* the offset a run would take from the persisted checkpoint
STATIONS_OFFSET_resumed(p) ==
  IF lambjobprogress = {} THEN 0
  ELSE (CHOOSE d \in lambjobprogress : d._id = JOB_ID).nextOffset
\* const STATIONS_OFFSET = parseInt(process.env.STATIONS_OFFSET || '0', 10)
STATIONS_OFFSET(p) == ParseEnvInt(env[p].STATIONS_OFFSET, 0)
\* const MAX_STATIONS_PER_RUN = parseInt(process.env.MAX_STATIONS_PER_RUN || '50', 10)
MAX_STATIONS_PER_RUN(p) ==
  ParseEnvInt(env[p].MAX_STATIONS_PER_RUN, DefaultMaxStationsPerRun)

\* a validation that forgets the API key
ConfigMissing_uriOnly(p) == ~env[p].MONGO_URI
\* if (!MONGO_URI || !OPENAQ_API_KEY)
ConfigMissing(p) == ~env[p].MONGO_URI \/ ~env[p].OPENAQ_API_KEY

\* the platform invokes the function: exports.handler up to client.connect()
Start(p) ==
  /\ env[p].deployed
  /\ status[p] # "running"
  /\ triggers[p] > 0
  /\ triggers' = [triggers EXCEPT ![p] = @ - 1]
  /\ status' = [status EXCEPT ![p] =
                  IF ConfigMissing(p)
                  THEN "returned" ELSE "running"]
  /\ LET h == [IdleH EXCEPT
                 !.startTime = now,
                 !.maxPerRun = MAX_STATIONS_PER_RUN(p),
                 !.offset = STATIONS_OFFSET(p)]
     IN  IF ConfigMissing(p)
         THEN Apply(p, Ctl("done", IdleH, IdleS,
                           [statusCode |-> 500, error |-> "Configuration error",
                            message |-> "Missing necessary environment variables",
                            stats |-> NoResults, hasStats |-> FALSE]))
         ELSE Apply(p, Ctl("connect", h, IdleS, NoRet))
  /\ UNCHANGED <<now, env, storeVars, otherVars>>

\* await client.connect()
Connect(p) ==
  /\ Running(p, "connect")
  /\ \/ Apply(p, Ctl("findStations", hf[p], IdleS, NoRet))
     \/ Apply(p, Thrown(hf[p], "connect failed"))
  /\ UNCHANGED <<now, storeVars, status, fixedVars>>

\* stationCollection.find(query).toArray() : the stations inside the LA bounds
allLaStations(coll) ==
  LET inLA == SelectSeq(coll, LAMBDA d : isInLosAngeles(d._id))
  IN  [x \in 1..Len(inLA) |-> inLA[x]._id]

\* await stationCollection.find(query).toArray(), the paging logic, the hour
\* alignment, the results object, and the batch loop up to its first await
FindStations(p) ==
  /\ Running(p, "findStations")
  /\ \/ LET all == allLaStations(stations)
            h0 == hf[p]
            endOffset == EndOffset(Len(all), h0.offset, h0.maxPerRun)
            laStations == JsSlice(all, h0.offset, endOffset)
            h == [h0 EXCEPT
                    !.totalStations = Len(all),
                    !.endOffset = endOffset,
                    !.laStations = laStations,
                    !.currentTime = AlignHour(now),
                    !.results = InitResults(Len(laStations), Len(all),
                                            h0.offset, h0.maxPerRun),
                    !.i = 0]
        IN  IF Len(all) = 0 THEN Apply(p, NoStations(h0))
            ELSE Apply(p, EnterLoop(h))
     \/ Apply(p, Thrown(hf[p], "stations.find failed"))
  /\ UNCHANGED <<now, storeVars, status, fixedVars>>

\* await new Promise(resolve => setTimeout(resolve, 1000)) between two stations
StationDelay(p) ==
  /\ Running(p, "stationDelay")
  /\ Apply(p, CallProcessStation(hf[p]))
  /\ UNCHANGED <<now, storeVars, status, fixedVars>>

\* await getLatestMeasurements(station.id, openaqApiKey)
Fetch(p) ==
  /\ Running(p, "fetch")
  /\ \E k \in 0..DefaultMaxRetries, kind \in FailureKinds,
        last \in LastResponses(sf[p].station) :
       LET responses == ResponseScript(k, kind, last)
           latestData == getLatestMeasurements(responses)
           s == [sf[p] EXCEPT
                   !.latestData = latestData,
                   !.fetchFailed = fetchWithRetry(responses, DefaultMaxRetries).threw]
       IN  IF Len(latestData) = 0
           THEN Apply(p, AfterResult(hf[p],
                           StationResult(FALSE, "no_data", 0, 0, "", Of(s))))
           ELSE Apply(p, Ctl("findSensors", hf[p], s, NoRet))
  /\ UNCHANGED <<now, storeVars, status, fixedVars>>

\* await sensorCollection.find({ station: station._id }).toArray()
FindSensors(p) ==
  /\ Running(p, "findSensors")
  /\ \/ \E rnd \in RandTapes :
          LET s == [sf[p] EXCEPT !.sensors = SensorsOf(sf[p].station), !.k = 1]
          IN  IF Len(s.sensors) = 0
              THEN Apply(p, AfterResult(hf[p],
                              StationResult(FALSE, "no_sensors", 0, 0, "", Of(s))))
              ELSE Apply(p, SensorLoop(hf[p], s, rnd))
     \/ Apply(p, AfterResult(hf[p], ErrorResult(sf[p], "sensors.find failed")))
  /\ UNCHANGED <<now, storeVars, status, fixedVars>>

\* await measurementCollection.findOne({ station, 'parameter.name', timestamp })
FindOne(p) ==
  /\ Running(p, "findOne")
  /\ \/ LET s == sf[p]
            found == existingRecord(hourlymeasurements, s.station,
                                    ParamName(s.sensors[s.k]), hf[p].currentTime)
        IN  Apply(p, Ctl(IF found THEN "updateSensor" ELSE "insertOne",
                         hf[p], [s EXCEPT !.existingRecord = found], NoRet))
     \/ Apply(p, AfterResult(hf[p], ErrorResult(sf[p], "measurements.findOne failed")))
  /\ UNCHANGED <<now, storeVars, status, fixedVars>>

\* await measurementCollection.insertOne({...})
InsertOne(p) ==
  /\ Running(p, "insertOne")
  /\ \/ LET s == sf[p]
        IN  /\ hourlymeasurements' =
                 Append(hourlymeasurements,
                        MeasurementDoc(p, s.station, s.sensors[s.k], s.value,
                                       s.isSimulated, hf[p].currentTime, now))
            /\ Apply(p, Ctl("updateSensor", hf[p],
                            [s EXCEPT !.stationDataUpdated = TRUE,
                                      !.recordsCreated = @ + 1], NoRet))
     \/ /\ Apply(p, AfterResult(hf[p], ErrorResult(sf[p], "measurements.insertOne failed")))
        /\ UNCHANGED hourlymeasurements
  /\ UNCHANGED <<now, stations, sensors, lambjobprogress, status, fixedVars>>

\* await sensorCollection.updateOne({ _id: sensor._id }, { $set: {...} }), then
\* the sensor loop up to the next await
UpdateSensor(p) ==
  /\ Running(p, "updateSensor")
  /\ \/ \E rnd \in RandTapes :
          LET s == sf[p]
          IN  /\ sensors' = [sensors EXCEPT ![s.sensors[s.k]] =
                               SensorSet(s.value, now, s.isSimulated)]
              /\ Apply(p, SensorLoop(hf[p], [s EXCEPT !.k = @ + 1], rnd))
     \/ /\ Apply(p, AfterResult(hf[p], ErrorResult(sf[p], "sensors.updateOne failed")))
        /\ UNCHANGED sensors
  /\ UNCHANGED <<now, stations, hourlymeasurements, lambjobprogress, status,
                 fixedVars>>

\* await stationCollection.updateOne({ _id }, { $set: { lastDataUpdate } })
UpdateStation(p) ==
  /\ Running(p, "updateStation")
  /\ \/ /\ stations' = [x \in 1..Len(stations) |->
                          IF stations[x]._id = sf[p].station
                          THEN [stations[x] EXCEPT !.lastDataUpdate = now]
                          ELSE stations[x]]
        /\ Apply(p, AfterResult(hf[p], ReturnOf(sf[p])))
     \/ /\ Apply(p, AfterResult(hf[p], ErrorResult(sf[p], "stations.updateOne failed")))
        /\ UNCHANGED stations
  /\ UNCHANGED <<now, sensors, hourlymeasurements, lambjobprogress, status,
                 fixedVars>>

\* await new Promise(resolve => setTimeout(resolve, batchDelaySeconds * 1000))
BatchDelay(p) ==
  /\ Running(p, "batchDelay")
  /\ Apply(p, Ctl("progress", hf[p], IdleS, NoRet))
  /\ UNCHANGED <<now, storeVars, status, fixedVars>>

\* await progressCollection.updateOne({ _id: 'LA_HOURLY_SYNC' }, ..., { upsert }),
\* then i += batchSize and the batch loop up to its next await
Progress(p) ==
  /\ Running(p, "progress")
  /\ \/ /\ lambjobprogress' = Upsert(lambjobprogress, ProgressDoc(hf[p], now))
        /\ Apply(p, EnterLoop([hf[p] EXCEPT !.i = @ + batchSize,
                                            !.upserts = @ + 1]))
     \/ /\ Apply(p, Thrown(hf[p], "lambjobprogress.updateOne failed"))
        /\ UNCHANGED lambjobprogress
  /\ UNCHANGED <<now, stations, sensors, hourlymeasurements, status, fixedVars>>

\* finally { await client.close() } : the invocation returns ret[p] and its
\* locals are gone
Close(p) ==
  /\ Running(p, "close")
  /\ status' = [status EXCEPT ![p] = "returned"]
  /\ Apply(p, Ctl("done", IdleH, IdleS, ret[p]))
  /\ UNCHANGED <<now, storeVars, fixedVars>>

\* the platform ends the invocation at the await it is suspended at: nothing
\* more of it runs, it returns nothing and its locals are gone
Terminate(p) ==
  /\ status[p] = "running"
  /\ status' = [status EXCEPT ![p] = "killed"]
  /\ Apply(p, Ctl("done", IdleH, IdleS, NoRet))
  /\ UNCHANGED <<now, storeVars, fixedVars>>

\* the wall clock advances
Tick ==
  /\ now < MaxTick
  /\ now' = now + 1
  /\ UNCHANGED <<storeVars, status, pc, hf, sf, ret, fixedVars>>

JobNext ==
  \/ Tick
  \/ \E p \in Invs :
       \/ Start(p)
       \/ Connect(p)
       \/ FindStations(p)
       \/ StationDelay(p)
       \/ Fetch(p)
       \/ FindSensors(p)
       \/ FindOne(p)
       \/ InsertOne(p)
       \/ UpdateSensor(p)
       \/ UpdateStation(p)
       \/ BatchDelay(p)
       \/ Progress(p)
       \/ Close(p)
       \/ Terminate(p)

(***************************************************************************)
(* Initial states                                                           *)
(***************************************************************************)
Undeployed == [deployed |-> FALSE, MONGO_URI |-> FALSE, OPENAQ_API_KEY |-> FALSE,
               MAX_STATIONS_PER_RUN |-> Undefined, STATIONS_OFFSET |-> Undefined]
Deployed(uri, key, maxPerRun, offset) ==
  [deployed |-> TRUE, MONGO_URI |-> uri, OPENAQ_API_KEY |-> key,
   MAX_STATIONS_PER_RUN |-> maxPerRun, STATIONS_OFFSET |-> offset]
\* the stations collection holding the documents of the stations `ids`
StationDocs(ids) ==
  [x \in 1..Len(ids) |-> [_id |-> ids[x], lastDataUpdate |-> Undefined]]
\* the whole population: stations 1..NumStations
MainPopulation == [x \in 1..NumStations |-> x]
\* a small population: stations without an id, then one station with a sensor
SmallPopulation ==
  [x \in 1..SmallStations |-> IF x < SmallStations THEN 5 * x - 1 ELSE 1]
NoFetch == [responses |-> <<>>, maxRetries |-> 0]
NoFetchOut == [threw |-> FALSE, error |-> NoError, body |-> NoBody,
               calls |-> 0, waits |-> <<>>]
NoPlan == [T |-> 0, W |-> 0, offset |-> 0, steps |-> 0, covered |-> <<>>,
           paging |-> NoPaging, done |-> FALSE]

InitJobVars(envs, populations, fires) ==
  /\ now = FirstTick
  /\ env \in envs
  /\ triggers = [p \in Invs |-> fires]
  /\ \E ids \in populations : stations = StationDocs(ids)
  /\ sensors = [x \in SensorIds |->
                  SensorSet(SensorDefaultValue, Undefined, FALSE)]
  /\ hourlymeasurements = <<>>
  /\ lambjobprogress = {}
  /\ status = [p \in Invs |-> "idle"]
  /\ pc = [p \in Invs |-> "done"]
  /\ hf = [p \in Invs |-> IdleH]
  /\ sf = [p \in Invs |-> IdleS]
  /\ ret = [p \in Invs |-> NoRet]
InitJob(envs, populations, fires) ==
  /\ InitJobVars(envs, populations, fires)
  /\ fetchIn = NoFetch
  /\ fetchOut = NoFetchOut
  /\ plan = NoPlan
  /\ mt = NoMatch
  /\ par = NoPar
  /\ al = NoAlign

\* one deployed function, invoked again and again: its invocations run one
\* after another
SeqEnvs ==
  {Deployed(TRUE, TRUE, m, o) :
     m \in {Undefined, 0, batchSize}, o \in {Undefined, batchSize, NumStations}}
  \cup {Deployed(FALSE, TRUE, Undefined, Undefined),
        Deployed(TRUE, FALSE, Undefined, Undefined)}
Init ==
  InitJob({e \in [Invs -> SeqEnvs \cup {Undeployed}] :
             /\ e[1].deployed
             /\ \A p \in Invs \ {1} : ~e[p].deployed},
          {<<>>, MainPopulation}, 1)
Next == JobNext
Spec == Init /\ [][Next]_vars

\* one deployed function over a small population, invoked MaxRuns times
SmallEnvs ==
  {Deployed(TRUE, TRUE, m, o) :
     m \in {Undefined, batchSize}, o \in {Undefined, batchSize}}
InitRerun ==
  InitJob({e \in [Invs -> SmallEnvs \cup {Undeployed}] :
             /\ e[1].deployed
             /\ \A p \in Invs \ {1} : ~e[p].deployed},
          {SmallPopulation}, MaxRuns)
SpecRerun == InitRerun /\ [][Next]_vars

\* one function with the default window, invoked MaxRuns times over a
\* population holding a station of each kind: without id, with id 0 and no
\* sensor, with one sensor
ClassPopulation == <<4, 2, 9, 1>>
InitClass ==
  InitJob({[p \in Invs |-> IF p = 1 THEN Deployed(TRUE, TRUE, Undefined, Undefined)
                                    ELSE Undeployed]},
          {ClassPopulation}, MaxRuns)
SpecClass == InitClass /\ [][Next]_vars

\* NumInv deployed functions over the same small population, each invoked once,
\* their store calls interleaved
\* function 1 is configured with the defaults (the whole population), the
\* others with the offset of the last batch: overlapping partitions
InitConc ==
  InitJob({[p \in Invs |-> Deployed(TRUE, TRUE, Undefined,
                                    IF p = 1 THEN Undefined ELSE batchSize)]},
          {SmallPopulation}, 1)
SpecConc == InitConc /\ [][Next]_vars

\* NumInv deployed functions over the same population of NumInv * PartWindow
\* stations, function p configured with STATIONS_OFFSET = (p - 1) * PartWindow
\* and MAX_STATIONS_PER_RUN = PartWindow, each invoked once, their steps
\* interleaved; every slice is two batches: a station with a sensor, then
\* stations without id
PartWindow == 4
PartPopulation ==
  [x \in 1..(NumInv * PartWindow) |->
     IF x % PartWindow = 1 THEN 5 * ((x - 1) \div PartWindow) + 1 ELSE 5 * x - 1]
InitPart ==
  InitJob({[p \in Invs |-> Deployed(TRUE, TRUE, PartWindow, (p - 1) * PartWindow)]},
          {PartPopulation}, 1)
SpecPart == InitPart /\ [][Next]_vars

(***************************************************************************)
(* The fetch client alone: fetchWithRetry applied to drawn responses        *)
(***************************************************************************)
NoJob == InitJobVars({[p \in Invs |-> Undeployed]}, {<<>>}, 0)
AReading == [sensorsId |-> ForeignSensor, value |-> RealValue]
FetchResponses ==
  {Failure(k) : k \in FailureKinds} \cup {Ok(<<>>), Ok(<<AReading>>), OkNoResults}
InitFetch ==
  /\ NoJob
  /\ fetchIn \in [responses : [1..DefaultMaxRetries -> FetchResponses],
                  maxRetries : 1..DefaultMaxRetries]
  /\ fetchOut = NoFetchOut
  /\ plan = NoPlan
  /\ mt = NoMatch
  /\ par = NoPar
  /\ al = NoAlign
\* fetchWithRetry(url, options, maxRetries) is called and settles
CallFetch ==
  /\ fetchOut.calls = 0
  /\ fetchIn.maxRetries > 0
  /\ fetchOut' = fetchWithRetry(fetchIn.responses, fetchIn.maxRetries)
  /\ UNCHANGED <<jobVars, fetchIn, plan, mt, par, al>>
NextFetch == CallFetch
SpecFetch == InitFetch /\ [][NextFetch]_vars

(***************************************************************************)
(* The planner alone: the paging logic applied again and again, each time   *)
(* at the nextOffset the previous application gave, starting at offset 0.   *)
(* plan.covered[x] counts the slices that held site x (sites[x - 1]).       *)
(***************************************************************************)
InitPlan ==
  /\ NoJob
  /\ \E T \in 1..MaxT, W \in 0..MaxW :
       plan = [NoPlan EXCEPT !.T = T, !.W = W, !.covered = [x \in 1..T |-> 0]]
  /\ fetchIn = NoFetch
  /\ fetchOut = NoFetchOut
  /\ mt = NoMatch
  /\ par = NoPar
  /\ al = NoAlign
\* one run's paging logic at plan.offset, up to the first complete slice; the
\* number of applications is capped at T + 1
PlanStep ==
  /\ plan.T > 0
  /\ ~plan.done
  /\ plan.steps <= plan.T
  /\ LET endOffset == EndOffset(plan.T, plan.offset, plan.W)
         slice == JsSlice([x \in 1..plan.T |-> x], plan.offset, endOffset)
     IN  plan' = [plan EXCEPT
                    !.covered = [x \in 1..plan.T |->
                                   IF x \in SeqRange(slice) THEN @[x] + 1 ELSE @[x]],
                    !.paging = Paging(plan.T, plan.offset, plan.W),
                    !.offset = NextOffset(plan.T, endOffset),
                    !.steps = @ + 1,
                    !.done = IsComplete(plan.T, endOffset)]
  /\ UNCHANGED <<jobVars, fetchIn, fetchOut, mt, par, al>>
NextPlan == PlanStep
SpecPlan == InitPlan /\ [][NextPlan]_vars

(***************************************************************************)
(* The site matcher alone                                                   *)
(***************************************************************************)
LocalIds == {Undefined, 0, 1}
UpstreamIds == {0, 1, 2}
LocalNames == {"", "Alpha", "1"}
UpstreamNames == {"alpha", "Alpha", "1"}
SiteLists(maxLen, ids, names) ==
  UNION {[1..n -> [id : ids, name : names]] : n \in 0..maxLen}
InitMatch ==
  /\ NoJob
  /\ fetchIn = NoFetch
  /\ fetchOut = NoFetchOut
  /\ plan = NoPlan
  /\ par = NoPar
  /\ al = NoAlign
  /\ \E local \in SiteLists(MaxLocal, LocalIds, LocalNames) \ {<<>>},
        upstream \in SiteLists(MaxUpstream, UpstreamIds, UpstreamNames) :
       mt = [NoMatch EXCEPT
               !.local = [x \in 1..Len(local) |->
                            [_id |-> x, id |-> local[x].id, name |-> local[x].name]],
               !.stored = [x \in 1..Len(local) |->
                             SiteDoc([_id |-> x, id |-> local[x].id,
                                      name |-> local[x].name])],
               !.upstream = [x \in 1..Len(upstream) |->
                               [id |-> upstream[x].id, name |-> upstream[x].name,
                                coordinates |-> x, lastUpdated |-> x]]]
\* the handler of fixed-index.js from fetchValidLocations to the choice of the
\* sites it collects data for; ok: the matches whose id update did not throw
MatchRun ==
  /\ ~mt.called
  /\ IF Len(mt.upstream) = 0
     THEN mt' = [mt EXCEPT !.called = TRUE]
     ELSE LET m == matchStations(mt.local, mt.upstream)
          IN  \E ok \in SUBSET IdUpdates(m.matchedStations) :
                mt' = [mt EXCEPT
                         !.called = TRUE,
                         !.matchedStations = m.matchedStations,
                         !.unmatchedStations = m.unmatchedStations,
                         !.issued = {m.matchedStations[x].dbStation._id :
                                       x \in IdUpdates(m.matchedStations)},
                         !.updated = {m.matchedStations[x].dbStation._id : x \in ok},
                         !.stored = updateStationIds(mt.stored, m.matchedStations,
                                                     ok, now),
                         !.limitedStations =
                            JsSlice(processStations(m.matchedStations), 0, MatchLimit),
                         !.statusCode =
                            IF Len(m.matchedStations) > 0 THEN 200 ELSE 404]
  /\ UNCHANGED <<jobVars, fetchIn, fetchOut, plan, par, al>>
NextMatch == MatchRun
SpecMatch == InitMatch /\ [][NextMatch]_vars

(***************************************************************************)
(* The batch loops of the two handlers: either the sequential loop of       *)
(* la-hourly-sync.js runs over ClassPopulation, or the parallel loop of     *)
(* fixed-index.js over 0..MaxMatched matched sites                          *)
(***************************************************************************)
\* the handler reaches the batch loop
ParStart ==
  /\ par.phase = "idle"
  /\ par' = ParLoop(par, 0)
  /\ UNCHANGED <<jobVars, fetchIn, fetchOut, plan, mt, al>>
\* the callback of site s returns: its try/catch blocks turn every failure
\* into failureCount++, so its promise always fulfils
ParSettle(s) ==
  /\ par.phase = "batch"
  /\ s \in par.running
  /\ par' = [par EXCEPT !.running = @ \ {s}, !.settled = @ \cup {s}]
  /\ UNCHANGED <<jobVars, fetchIn, fetchOut, plan, mt, al>>
\* Promise.all fulfils once every callback of the batch has; then
\* if (i + batchSize < limitedStations.length) await setTimeout(500)
ParJoin ==
  /\ par.phase = "batch"
  /\ par.running = {}
  /\ par' = IF par.i + batchSize_fixedIndex < par.total
            THEN [par EXCEPT !.phase = "delay"]
            ELSE ParLoop(par, par.i + batchSize_fixedIndex)
  /\ UNCHANGED <<jobVars, fetchIn, fetchOut, plan, mt, al>>
\* the timer of the inter-batch delay fires: i += batchSize and the loop goes on
ParDelay ==
  /\ par.phase = "delay"
  /\ par' = ParLoop([par EXCEPT !.delays = @ + 1], par.i + batchSize_fixedIndex)
  /\ UNCHANGED <<jobVars, fetchIn, fetchOut, plan, mt, al>>
ParNext ==
  \/ ParStart
  \/ \E s \in 1..MaxMatched : ParSettle(s)
  \/ ParJoin
  \/ ParDelay
InitBatch ==
  \/ /\ InitJob({[p \in Invs |-> IF p = 1
                                 THEN Deployed(TRUE, TRUE, Undefined, Undefined)
                                 ELSE Undeployed]},
                {ClassPopulation}, 1)
  \/ /\ NoJob
     /\ fetchIn = NoFetch
     /\ fetchOut = NoFetchOut
     /\ plan = NoPlan
     /\ mt = NoMatch
     /\ al = NoAlign
     /\ par \in {[NoPar EXCEPT !.total = n, !.phase = "idle"] : n \in 0..MaxMatched}
NextBatch == JobNext \/ ParNext
SpecBatch == InitBatch /\ [][NextBatch]_vars

(***************************************************************************)
(* The hour alignment alone, applied to two drawn instants                  *)
(***************************************************************************)
MaxHours == 2
\* instants at the edges of the minutes, seconds and milliseconds of an hour
Instants ==
  {MakeTime(h, m, s, ms) :
     h \in 1..MaxHours, m \in {0, 1, 59}, s \in {0, 59}, ms \in {0, 1, 999}}
\* zone offsets: UTC, and a zone half an hour off the UTC hours
Offsets == {0, 30 * msPerMinute}
InitAlign ==
  /\ NoJob
  /\ fetchIn = NoFetch
  /\ fetchOut = NoFetchOut
  /\ plan = NoPlan
  /\ mt = NoMatch
  /\ par = NoPar
  /\ al \in {[NoAlign EXCEPT !.a = a, !.b = b, !.tza = z] :
               a \in Instants, b \in Instants, z \in Offsets}
\* both instants are aligned, the first result is aligned again
Align ==
  /\ ~al.done
  /\ al' = [al EXCEPT
              !.done = TRUE,
              !.ra = currentTime(al.a, al.tza),
              !.rb = currentTime(al.b, al.tza),
              !.rra = currentTime(currentTime(al.a, al.tza), al.tza),
              !.ha = hourTime(al.a, al.tza)]
  /\ UNCHANGED <<jobVars, fetchIn, fetchOut, plan, mt, par>>
NextAlign == Align
SpecAlign == InitAlign /\ [][NextAlign]_vars

(***************************************************************************)
(* Properties                                                               *)
(***************************************************************************)
Last(s) == s[Len(s)]
\* the Measurements stored for one (site, parameter name, aligned hour)
WithKey(station, paramName, timestamp) ==
  {x \in 1..Len(hourlymeasurements) :
     MatchesKey(hourlymeasurements[x], station, paramName, timestamp)}
Keys ==
  {<<m.station, m.parameterName, m.timestamp>> :
     m \in SeqRange(hourlymeasurements)}
\* the sensor invocation p is writing
CurrentSensor(p) == sf[p].sensors[sf[p].k]
\* the step of p from pc "updateSensor" in which updateOne did not throw
SensorUpdated(p) ==
  /\ Running(p, "updateSensor")
  /\ status'[p] = "running"
  /\ <<pc'[p], sf'[p]>> # <<pc[p], sf[p]>>
  /\ ~(/\ Len(hf'[p].out) > Len(hf[p].out)
       /\ Last(hf'[p].out).error = "sensors.updateOne failed")

\* C1: invocations that run one after another leave exactly one Measurement
\* per (site, parameter name, aligned hour): once the existence check and the
\* insert of a write are over there is exactly one, no key ever has two, and a
\* write that finds the record creates nothing; the Sensor's value, simulated
\* flag and last-updated time are overwritten by every write, the second too.
C1_OnePerKey ==
  /\ \A k \in Keys : Cardinality(WithKey(k[1], k[2], k[3])) = 1
  /\ \A p \in Invs :
       Running(p, "updateSensor") =>
         Cardinality(WithKey(sf[p].station, ParamName(CurrentSensor(p)),
                             hf[p].currentTime)) = 1
C1_SensorOverwritten ==
  \A p \in Invs :
    SensorUpdated(p) =>
      /\ sensors'[CurrentSensor(p)] =
           SensorSet(sf[p].value, now, sf[p].isSimulated)
      /\ hourlymeasurements' = hourlymeasurements
C1_IdempotentWrite == []C1_OnePerKey /\ [][C1_SensorOverwritten]_vars
\* a second invocation has written station 1's sensor in the hour of the first:
\* one Measurement, still holding the first value, and the Sensor holding the
\* second value, flag and time
C1_Witness ==
  /\ triggers[1] = 0
  /\ Cardinality(WithKey(1, "pm25", 0)) = 1
  /\ \E x \in WithKey(1, "pm25", 0) :
       /\ hourlymeasurements[x].value = RealValue
       /\ ~hourlymeasurements[x].isSimulated
       /\ sensors[11].isSimulated
       /\ sensors[11].value # RealValue
       /\ sensors[11].lastUpdated > hourlymeasurements[x].createdAt

\* C2 as stated: in every reachable state, whatever the interleaving of the
\* store calls of concurrent invocations, no (site, parameter name, aligned
\* hour) has more than one Measurement.
C2_AtMostOnePerKey ==
  \A k \in Keys : Cardinality(WithKey(k[1], k[2], k[3])) <= 1
\* the key of the existence check invocation p is about to run or has just run
CheckedKey(p) ==
  <<sf[p].station, ParamName(CurrentSensor(p)), hf[p].currentTime>>
C2_OnePerInvocation ==
  \A x, y \in 1..Len(hourlymeasurements) :
    (/\ x # y
     /\ MatchesKey(hourlymeasurements[x], hourlymeasurements[y].station,
                   hourlymeasurements[y].parameterName,
                   hourlymeasurements[y].timestamp))
      => hourlymeasurements[x].by # hourlymeasurements[y].by
C2_CheckedInsert ==
  \A p \in Invs :
    (/\ Running(p, "findOne")
     /\ WithKey(CheckedKey(p)[1], CheckedKey(p)[2], CheckedKey(p)[3]) # {})
      => pc'[p] # "insertOne"
\* C2, amended: concurrent invocations may leave more than one Measurement for
\* a key, but only through the window between findOne and insertOne: an
\* existence check that runs while a Measurement of the key is stored is never
\* followed by an insert, and the Measurements of one key come from different
\* invocations, so a key has at most as many as there are invocations racing.
C2_DuplicatesOnlyByRace ==
  /\ []C2_OnePerInvocation
  /\ [](\A k \in Keys : Cardinality(WithKey(k[1], k[2], k[3])) <= NumInv)
  /\ [][C2_CheckedInsert]_vars
\* both invocations passed the existence check for station 1's pm25 sensor in
\* the same hour before either inserted, and both inserted
C2_Witness ==
  /\ Cardinality(WithKey(1, "pm25", 0)) = 2
  /\ {hourlymeasurements[x].by : x \in WithKey(1, "pm25", 0)} = {1, 2}

\* the sites of plan.T that the slices produced so far have covered n times
Covered(n) == {x \in 1..plan.T : plan.covered[x] = n}
\* the slices produced so far are pairwise disjoint; before the completing slice
\* they are sites[0..offset), with it they are sites[0..T)
PlanPartition ==
  /\ Covered(0) \cup Covered(1) = 1..plan.T
  /\ plan.done => Covered(1) = 1..plan.T /\ plan.offset = 0
  /\ ~plan.done => Covered(1) = 1..plan.offset
\* C3 as stated: for every T and every W the slices are disjoint, cover
\* sites[0..T) and a completing slice is always reached (T runs are enough for
\* any window that advances).
C3_EveryWindowCompletes ==
  /\ PlanPartition
  /\ plan.steps >= plan.T => plan.done
\* C3, amended: for every T >= 1 and every W >= 1 the slices up to the first
\* complete one are pairwise disjoint, their union is sites[0..T), and the
\* completing slice is the ceil(T / W)-th; with W = 0 every slice is empty, the
\* offset stays 0 and no slice completes.
C3_PartitionCoverage ==
  /\ PlanPartition
  /\ plan.T >= 1 /\ plan.W >= 1 => (plan.done <=> plan.steps = Ceil(plan.T, plan.W))
  /\ plan.T >= 1 /\ plan.W = 0 => ~plan.done /\ plan.offset = 0 /\ Covered(1) = {}
\* three slices of a population that the window does not divide: the last one
\* is shorter and completes the cycle
C3_Witness ==
  /\ plan.T = 2 * batchSize + 1
  /\ plan.W = batchSize
  /\ plan.steps = 3
  /\ plan.done
  /\ plan.paging.processedCount = 1

\* the checkpoint document of the job, when one is stored
Checkpoint == CHOOSE d \in lambjobprogress : d._id = JOB_ID
\* invocation p has not written the checkpoint yet: what is stored, if anything,
\* is what an earlier invocation persisted
BeforeOwnUpsert(p) ==
  /\ status[p] = "running"
  /\ hf[p].upserts = 0
  /\ lambjobprogress # {}
Completed(p) == Running(p, "close") /\ ret[p].statusCode = 200
\* sites[from .. to) of the population, counted from 0
Sites(all, from, to) == [x \in 1..Max(Min(to, Len(all)) - from, 0) |-> all[from + x]]
\* the slice and the report of a completed run are the planner's
PlannedAsContract(p) ==
  LET T == hf[p].totalStations
      o == STATIONS_OFFSET(p)
      e == Min(o + MAX_STATIONS_PER_RUN(p), T)
  IN  /\ hf[p].laStations = Sites(allLaStations(stations), o, e)
      /\ [x \in 1..Len(hf[p].out) |-> hf[p].out[x].station] = hf[p].laStations
      /\ ret[p].stats.paging.remainingStations = T - e
      /\ ret[p].stats.paging.isComplete = (e >= T)
\* the stored checkpoint holds the planner's nextOffset for run p
PersistedAsContract(p) ==
  LET T == hf[p].totalStations
      e == Min(STATIONS_OFFSET(p) + MAX_STATIONS_PER_RUN(p), T)
  IN  /\ lambjobprogress # {}
      /\ Checkpoint.nextOffset = IF e >= T THEN 0 ELSE e
\* C5: for T >= 1, o >= 0 and m >= 0 a run processes exactly
\* sites[o .. min(o+m, T)), reports remaining = T - min(o+m, T) and
\* isComplete = (min(o+m, T) >= T), and persists nextOffset = 0 when complete,
\* min(o+m, T) otherwise.
C5_PlannerResult ==
  \A p \in Invs :
    Completed(p) /\ hf[p].totalStations >= 1 =>
      PlannedAsContract(p) /\ PersistedAsContract(p)

\* C6: a run configured with offset >= totalSites >= 1 processes no site,
\* creates no Measurement, and still upserts the checkpoint, so that after the
\* run nextOffset = 0.
C6_EmptySliceCheckpoint ==
  \A p \in Invs :
    (/\ Completed(p)
     /\ hf[p].totalStations >= 1
     /\ STATIONS_OFFSET(p) >= hf[p].totalStations)
      => /\ hf[p].out = <<>>
         /\ \A x \in 1..Len(hourlymeasurements) : hourlymeasurements[x].by # p
         /\ lambjobprogress # {}
         /\ Checkpoint.nextOffset = 0

\* the platform terminates invocation p in this step
Killed(p) == status[p] = "running" /\ status'[p] = "killed"
\* all sites of a batch of p are processed and the first site of the next batch
\* is not started: p is suspended in the inter-batch delay or in the upsert
BetweenBatches(p) == status[p] = "running" /\ pc[p] \in {"batchDelay", "progress"}
\* the batches of its slice that p has processed completely
BatchesProcessed(p) ==
  IF BetweenBatches(p) THEN (hf[p].i \div batchSize) + 1 ELSE hf[p].i \div batchSize
\* the stored checkpoint records b batches of the slice of p
Records(coll, p, b) ==
  /\ coll # {}
  /\ \A d \in coll :
       /\ d.batchesCompleted = b
       /\ d.lastOffset = hf[p].offset
       /\ d.nextOffset = IF hf[p].endOffset >= hf[p].totalStations
                         THEN 0 ELSE hf[p].endOffset
\* C7 as stated: an invocation terminated between its b-th batch and the first
\* site of batch b+1, the inter-batch delay included, leaves a checkpoint that
\* records batchesCompleted = b with the slice's lastOffset and nextOffset.
C7_KilledBetweenBatches ==
  \A p \in Invs :
    Killed(p) /\ BetweenBatches(p) =>
      Records(lambjobprogress', p, BatchesProcessed(p))
C7_CheckpointSurvives == [][C7_KilledBetweenBatches]_vars
\* the checkpoint is upserted after the inter-batch delay, so it trails the
\* processed batches by one while p is between batches
C7_TrailsByOne ==
  \A p \in Invs :
    status[p] = "running" /\ hf[p].totalStations > 0 =>
      /\ hf[p].upserts = hf[p].i \div batchSize
      /\ hf[p].upserts = 0 => lambjobprogress = {}
      /\ hf[p].upserts > 0 => Records(lambjobprogress, p, hf[p].upserts)
C7_KilledKeepsUpserted ==
  \A p \in Invs :
    Killed(p) =>
      /\ lambjobprogress' = lambjobprogress
      /\ BetweenBatches(p) => hf[p].upserts = BatchesProcessed(p) - 1
\* C7, amended: with one invocation writing the checkpoint, the checkpoint
\* records batchesCompleted = b with the slice's lastOffset and nextOffset once
\* the upsert that follows batch b has been applied; that upsert is issued after
\* the inter-batch delay, so an invocation terminated during the delay or during
\* the upsert leaves the checkpoint of batch b-1, and none at all when b = 1.
C7_CheckpointAfterUpsert ==
  /\ []C7_TrailsByOne
  /\ [][C7_KilledKeepsUpserted]_vars
\* the second batch of the slice is processed and its upsert is pending: the
\* stored checkpoint still says one batch
C7_Witness ==
  /\ Running(1, "progress")
  /\ hf[1].i = batchSize
  /\ Len(hf[1].out) = batchSize + 1
  /\ Records(lambjobprogress, 1, 1)

\* the sites the outcomes collected so far are of, in order
OutcomeSites(p) == [x \in 1..Len(hf[p].out) |-> hf[p].out[x].station]
\* the outcome is of a site whose fetch failed on every attempt or whose
\* processing threw
SiteFailed(r) == r.fetchFailed \/ r.reason = "error"
\* invocation p collects the outcome of a failed site in this step
CollectsFailure(p) ==
  /\ status[p] = "running"
  /\ Len(hf'[p].out) = Len(hf[p].out) + 1
  /\ SiteFailed(Last(hf'[p].out))
C8_OutcomePerSite ==
  \A p \in Invs :
    /\ status[p] = "running" /\ pc[p] \notin {"connect", "findStations"} =>
         /\ Len(hf[p].out) <= Len(hf[p].laStations)
         /\ OutcomeSites(p) = SubSeq(hf[p].laStations, 1, Len(hf[p].out))
    /\ Completed(p) =>
         /\ OutcomeSites(p) = hf[p].laStations
         /\ hf[p].upserts = Ceil(Len(hf[p].laStations), batchSize)
         /\ Len(hf[p].laStations) > 0 =>
              Records(lambjobprogress, p, Ceil(Len(hf[p].laStations), batchSize))
C8_FailureDoesNotAbort ==
  \A p \in Invs :
    CollectsFailure(p) =>
      /\ status'[p] = "running"
      /\ pc'[p] \in {"stationDelay", "batchDelay", "progress"}
      /\ ret'[p] = NoRet
\* C8: a site whose fetch fails on every attempt, or whose processing throws,
\* gets an outcome of its own and the run goes on: every site of the slice gets
\* its outcome, in order, the checkpoint is upserted after each batch, and a
\* run that reaches its end has batchesCompleted = the number of batches of
\* the slice.
C8_PartialFailureIsolation ==
  /\ []C8_OutcomePerSite
  /\ [][C8_FailureDoesNotAbort]_vars
\* a completed run of two batches: the fetch of the first site failed on every
\* attempt, the two other sites of its batch have outcomes, and the site of the
\* second batch was written
C8_Witness ==
  /\ Completed(1)
  /\ Len(hf[1].out) = batchSize + 1
  /\ hf[1].out[1].fetchFailed
  /\ hf[1].out[batchSize + 1].success
  /\ Records(lambjobprogress, 1, 2)

\* fetchWithRetry has been called and has settled
Settled == fetchOut.calls > 0
\* the calls, among the first N, whose answer satisfies `good`
CallsWith(good(_)) ==
  {n \in 1..fetchIn.maxRetries : good(fetchIn.responses[n])}
First(S) == CHOOSE n \in S : \A m \in S : n <= m
Is2xx(r) == r.kind \in {"ok", "badjson"}
Is2xxParsed(r) == r.kind = "ok"
\* at most N calls; the body of the first call answering `good`, and no call
\* after it; the error of the N-th call when no call answers `good`
BoundedRetry(good(_)) ==
  LET N == fetchIn.maxRetries
      S == CallsWith(good)
  IN  /\ fetchOut.calls <= N
      /\ S # {} =>
           /\ ~fetchOut.threw
           /\ fetchOut.calls = First(S)
           /\ fetchOut.body = fetchIn.responses[First(S)].body
      /\ S = {} =>
           /\ fetchOut.threw
           /\ fetchOut.calls = N
           /\ fetchOut.error = [kind |-> fetchIn.responses[N].kind, call |-> N]
\* C9 as stated: at most N calls, the parsed body of the first call that
\* answers 2xx and no call after it, the error of the N-th call when all fail.
C9_First2xxReturned == Settled => BoundedRetry(Is2xx)
\* C9, amended: fetchWithRetry issues at most N calls and returns the body of
\* the first call that answers 2xx with a body that parses as JSON, zero
\* results included, issuing no call after it; a network error, a non-2xx
\* status and a 2xx whose body does not parse each count as a failed attempt,
\* and when all N attempts fail it throws the error of the N-th.
C9_BoundedRetry == Settled => BoundedRetry(Is2xxParsed)
\* N = 3: the first call fails with a non-2xx status, the second answers 2xx
\* with zero results and is returned; the third call is not issued
C9_Witness ==
  /\ fetchIn.maxRetries = DefaultMaxRetries
  /\ fetchIn.responses[1] = Failure("http")
  /\ fetchIn.responses[2] = Ok(<<>>)
  /\ fetchOut.calls = 2
  /\ ~fetchOut.threw
  /\ fetchOut.body.results = <<>>

\* the payload has no reading for sensor x, or its reading for x, the last one
\* if several, carries no value
NoRealReading(latestData, x) ==
  LET idx == {n \in 1..Len(latestData) : latestData[n].sensorsId = x}
  IN  \/ idx = {}
      \/ \E n \in idx : (\A m \in idx : m <= n) /\ latestData[n].value = Undefined
SimulatedValues(x) == {generateSimulatedValue(ParamName(x), r) : r \in Rands}
\* a Measurement of the key of sensor x exists for the hour of run p, and the
\* Sensor holds a simulated value
WrittenAsSimulated(p, station, x) ==
  /\ WithKey(station, ParamName(x), hf[p].currentTime) # {}
  /\ sensors[x].isSimulated
  /\ sensors[x].value \in SimulatedValues(x)
\* C10 as stated: for a site with a valid id that owns sensors, every sensor
\* without a real reading in the payload, the empty payload included, gets a
\* Measurement for the aligned hour and a Sensor flagged simulated.
C10_FallbackAlways ==
  \A p \in Invs :
    \A n \in 1..Len(hf[p].out) :
      LET r == hf[p].out[n]
      IN  r.reason \notin {"missing_id", "error"} /\ ~r.fetchFailed =>
            \A x \in r.lacking : WrittenAsSimulated(p, r.station, x)
\* while p writes the sensors of a site, every sensor already written that had
\* no real reading in the non-empty payload is written as simulated
C10_LackingWritten ==
  \A p \in Invs :
    status[p] = "running" /\ pc[p] \in {"findOne", "insertOne", "updateSensor", "updateStation"} =>
      /\ Len(sf[p].latestData) > 0
      /\ \A j \in 1..Len(sf[p].sensors) :
           j < sf[p].k /\ NoRealReading(sf[p].latestData, sf[p].sensors[j]) =>
             WrittenAsSimulated(p, sf[p].station, sf[p].sensors[j])
\* an empty payload ends the site with outcome no_data and nothing written
C10_EmptyPayloadSkipped ==
  \A p \in Invs :
    \A n \in 1..Len(hf[p].out) :
      hf[p].out[n].reason = "no_data" =>
        /\ hf[p].out[n].recordsCreated = 0
        /\ \A m \in SeqRange(hourlymeasurements) : m.station # hf[p].out[n].station
        /\ \A x \in SeqRange(SensorsOf(hf[p].out[n].station)) :
             sensors[x] = SensorSet(SensorDefaultValue, Undefined, FALSE)
\* the Measurement inserted and the Sensor update issued for a sensor carry the
\* simulated flag exactly when the payload has no real reading for it, and the
\* aligned hour of the run
C10_FlagFollowsPayload ==
  \A p \in Invs :
    LET lacks == NoRealReading(sf[p].latestData, CurrentSensor(p))
    IN  /\ (Running(p, "insertOne") /\ Len(hourlymeasurements') > Len(hourlymeasurements)) =>
             /\ Last(hourlymeasurements').isSimulated = lacks
             /\ Last(hourlymeasurements').timestamp = hf[p].currentTime
             /\ hf[p].currentTime % TicksPerHour = 0
             /\ lacks => Last(hourlymeasurements').value \in SimulatedValues(CurrentSensor(p))
        /\ SensorUpdated(p) => sensors'[CurrentSensor(p)].isSimulated = lacks
\* C10, amended: for a site with a valid id whose payload is not empty, every
\* sensor of the site for which the payload has no reading, or a reading
\* without a value, gets a Measurement for the aligned hour flagged simulated
\* (unless the key already has one) and a Sensor set to the simulated value
\* and flag; a site whose payload is empty ends with outcome no_data and
\* nothing is written for it.
C10_SyntheticFallback ==
  /\ [](C10_LackingWritten /\ C10_EmptyPayloadSkipped)
  /\ [][C10_FlagFollowsPayload]_vars
\* station 1's payload holds one reading, of a sensor that is not its own: its
\* pm25 sensor was written with a simulated Measurement and a simulated value
C10_Witness ==
  /\ Running(1, "updateStation")
  /\ sf[1].station = 1
  /\ sf[1].latestData = <<AReading>>
  /\ \E x \in WithKey(1, "pm25", hf[1].currentTime) : hourlymeasurements[x].isSimulated
  /\ WrittenAsSimulated(1, 1, 11)

\* the documented range of a parameter, in tenths of a unit
RangeOf(paramName) ==
  CASE paramName = "pm25" -> 50..450
    [] paramName = "pm10" -> 100..600
    [] paramName = "o3" -> 100..700
    [] paramName = "no2" -> 50..550
    [] paramName = "so2" -> 10..210
    [] paramName = "co" -> 2..52
    [] OTHER -> 50..350
\* the value of the reading the payload holds for sensor x (the last, if several)
ReadingOf(latestData, x) ==
  LET idx == {n \in 1..Len(latestData) : latestData[n].sensorsId = x}
  IN  latestData[CHOOSE n \in idx : \A m \in idx : m <= n].value
\* flag and value are those of the payload's reading, or simulated and in range
Provenance(latestData, x, flag, value) ==
  IF NoRealReading(latestData, x)
  THEN flag /\ value \in RangeOf(ParamName(x))
  ELSE ~flag /\ value = ReadingOf(latestData, x)
\* invocation p inserts a Measurement in this step
MeasurementInserted(p) ==
  /\ Running(p, "insertOne")
  /\ Len(hourlymeasurements') = Len(hourlymeasurements) + 1
C11_WriteProvenance ==
  \A p \in Invs :
    /\ MeasurementInserted(p) =>
         /\ Provenance(sf[p].latestData, CurrentSensor(p),
                       Last(hourlymeasurements').isSimulated,
                       Last(hourlymeasurements').value)
         /\ Last(hourlymeasurements').isSimulated = sf[p].isSimulated
         /\ pc'[p] = "updateSensor"
         /\ sf'[p].isSimulated = sf[p].isSimulated
         /\ sf'[p].k = sf[p].k
    /\ SensorUpdated(p) =>
         /\ Provenance(sf[p].latestData, CurrentSensor(p),
                       sensors'[CurrentSensor(p)].isSimulated,
                       sensors'[CurrentSensor(p)].value)
         /\ sensors'[CurrentSensor(p)].isSimulated = sf[p].isSimulated
\* C11: a Measurement or Sensor value written from a reading of the payload
\* carries isSimulated = false and the reading's value, one written from the
\* generator carries isSimulated = true and a value inside the parameter's
\* range, and the Sensor update that follows an insert carries the flag of the
\* inserted Measurement.
C11_ValueProvenance == [][C11_WriteProvenance]_vars
\* one run wrote station 1's pm25 sensor from a real reading and station 5's
\* first o3 sensor from the generator
C11_Witness ==
  /\ \E x \in WithKey(1, "pm25", 0) :
       ~hourlymeasurements[x].isSimulated /\ hourlymeasurements[x].value = RealValue
  /\ sensors[11] = SensorSet(RealValue, sensors[11].lastUpdated, FALSE)
  /\ \E y \in WithKey(5, "o3", 0) :
       hourlymeasurements[y].isSimulated /\ hourlymeasurements[y].value \in RangeOf("o3")
  /\ sensors[51].isSimulated
  /\ sensors[51].value \in RangeOf("o3")

\* the texts the body returned by an invocation carries: its error and message
\* fields; the fields of stats are counts and the paging block
ReportedMessages(r) == {r.error, r.message} \ {""}
\* C12: for every site of the slice that ended in an unresolved failure (fetch
\* failed on all attempts, or a store operation threw) the returned value
\* holds the per-category count and the underlying error message.
C12_FailureMessagesReturned ==
  \A p \in Invs :
    Completed(p) =>
      \A n \in 1..Len(hf[p].out) :
        SiteFailed(hf[p].out[n]) =>
          /\ ret[p].stats.failureReasons[hf[p].out[n].reason] >= 1
          /\ hf[p].out[n].error \in ReportedMessages(ret[p])

\* the connection string or the API key of function p is missing
Misconfigured(p) == env[p].deployed /\ (~env[p].MONGO_URI \/ ~env[p].OPENAQ_API_KEY)
\* the platform invokes function p in this step
Invoked(p) == triggers'[p] = triggers[p] - 1
\* the store as it was before the first invocation
StoreUntouched ==
  /\ hourlymeasurements = <<>>
  /\ lambjobprogress = {}
  /\ \A x \in SensorIds : sensors[x] = SensorSet(SensorDefaultValue, Undefined, FALSE)
  /\ \A x \in 1..Len(stations) : stations[x].lastDataUpdate = Undefined
C13_NeverWorks ==
  \A p \in Invs :
    Misconfigured(p) =>
      /\ status[p] \in {"idle", "returned"}
      /\ pc[p] = "done"
      /\ hf[p] = IdleH /\ sf[p] = IdleS
      /\ (\A q \in Invs \ {p} : ~env[q].deployed) => StoreUntouched
C13_ReturnsError ==
  \A p \in Invs :
    Misconfigured(p) /\ Invoked(p) =>
      /\ status'[p] = "returned"
      /\ ret'[p].statusCode = 500
      /\ ret'[p].error = "Configuration error"
      /\ storeVars' = storeVars
\* C13: an invocation started without the connection string or without the API
\* key returns an error result at once: it never connects to the store, never
\* fetches, and creates or updates no Measurement, Sensor, Site or Checkpoint.
C13_ConfigErrorAborts == []C13_NeverWorks /\ [][C13_ReturnsError]_vars
\* the function without an API key was invoked and has returned its error,
\* over a populated store that nothing has touched
C13_Witness ==
  /\ env[1].MONGO_URI /\ ~env[1].OPENAQ_API_KEY
  /\ triggers[1] = 0
  /\ status[1] = "returned"
  /\ ret[1].statusCode = 500
  /\ Len(stations) = NumStations
  /\ StoreUntouched

\* the local sites matchStations placed in matched (with the given type), and in unmatched
MatchedAs(type) ==
  {mt.matchedStations[x].dbStation._id :
     x \in {y \in 1..Len(mt.matchedStations) : mt.matchedStations[y].matchType = type}}
Unmatched == {mt.unmatchedStations[x]._id : x \in 1..Len(mt.unmatchedStations)}
Collected == {mt.limitedStations[x]._id : x \in 1..Len(mt.limitedStations)}
SameId(s) == s.id # Undefined /\ \E x \in 1..Len(mt.upstream) : mt.upstream[x].id = s.id
SameName(s) ==
  /\ HasName(s.name)
  /\ \E x \in 1..Len(mt.upstream) :
       toLowerCase(mt.upstream[x].name) = toLowerCase(s.name)
Matched == mt.called /\ Len(mt.upstream) > 0
\* every local site is in exactly one of matched and unmatched, and nothing
\* unmatched is collected or rewritten
C14_Partition ==
  Matched =>
    /\ \A x \in 1..Len(mt.local) :
         Cardinality({k \in {"id", "name", "none"} :
            x \in (IF k = "none" THEN Unmatched ELSE MatchedAs(k))}) = 1
    /\ Len(mt.matchedStations) + Len(mt.unmatchedStations) = Len(mt.local)
    /\ (Collected \cup mt.updated) \cap Unmatched = {}
\* C14: match places every local site in exactly one of matched and unmatched:
\* matched by id when its external id equals some upstream id, otherwise by
\* name when the lower-cased names are equal, otherwise unmatched; no
\* unmatched site is fetched or written during the run.
C14_MatcherOrder ==
  /\ C14_Partition
  /\ Matched =>
       \A x \in 1..Len(mt.local) :
         LET s == mt.local[x]
         IN  /\ x \in MatchedAs("id") <=> SameId(s)
             /\ x \in MatchedAs("name") <=> (~SameId(s) /\ SameName(s))
             /\ x \in Unmatched <=> (~SameId(s) /\ ~SameName(s))

\* the sites of invocation p's slice, once it has read the site list
SliceOf(p) == SeqRange(hf[p].laStations)
\* the sites invocation p has an outcome for
ProcessedBy(p) == SeqRange(OutcomeSites(p))
\* the sites at positions [(p - 1) * W, p * W) of the site list
PartitionOf(p) ==
  {PartPopulation[x] : x \in ((p - 1) * PartWindow + 1)..(p * PartWindow)}
C15_Disjoint ==
  /\ \A p \in Invs : SliceOf(p) \cup ProcessedBy(p) \subseteq PartitionOf(p)
  /\ \A p, q \in Invs :
       p # q => /\ SliceOf(p) \cap SliceOf(q) = {}
                /\ ProcessedBy(p) \cap ProcessedBy(q) = {}
C15_Covers ==
  (\A p \in Invs : Completed(p)) =>
    /\ UNION {ProcessedBy(p) : p \in Invs} = SeqRange(allLaStations(stations))
    /\ \A p \in Invs : ProcessedBy(p) = PartitionOf(p)
C15_OwnKeys ==
  /\ \A x \in 1..Len(hourlymeasurements) :
       hourlymeasurements[x].station \in PartitionOf(hourlymeasurements[x].by)
  /\ \A k \in Keys : Cardinality(WithKey(k[1], k[2], k[3])) = 1
\* C15: functions configured with offsets 0, W, 2W, ... and the same maximum
\* W, run concurrently over the same site list, process pairwise disjoint sets
\* of sites whose union is the whole population, and no two of them write the
\* same (site, parameter, aligned hour) key.
C15_ParallelPartitions == C15_Disjoint /\ C15_Covers /\ C15_OwnKeys
\* both functions have completed, each having written the Measurement of the
\* site with a sensor in its own slice
C15_Witness ==
  /\ \A p \in Invs : Completed(p)
  /\ \A p \in Invs : \E x \in 1..Len(hourlymeasurements) :
       hourlymeasurements[x].by = p

\* the step of p from pc "progress" in which the checkpoint upsert was applied
Upserted(p) == Running(p, "progress") /\ hf'[p].upserts = hf[p].upserts + 1
C16_Singleton ==
  /\ Cardinality(lambjobprogress) <= 1
  /\ \A d \in lambjobprogress : d._id = JOB_ID
C16_LastWriterWins ==
  /\ \A p \in Invs :
       Upserted(p) => lambjobprogress' = {ProgressDoc(hf[p], now)}
  /\ lambjobprogress' # lambjobprogress => \E p \in Invs : Upserted(p)
\* C16: after any interleaving of checkpoint upserts by concurrent invocations
\* the store holds exactly one Checkpoint for the job identifier, and every
\* field of it is the value of the most recently applied upsert.
C16_CheckpointSingleton == []C16_Singleton /\ [][C16_LastWriterWins]_vars
\* both functions have upserted, and the Checkpoint holds what function 2
\* wrote over the checkpoint of function 1
C16_Witness ==
  /\ hf[1].upserts >= 1
  /\ hf[2].upserts >= 1
  /\ \E d \in lambjobprogress :
       /\ d.lastOffset = batchSize
       /\ d.batchesCompleted = 1
       /\ d.isFullyComplete

\* invocation p has a value to return: it is at the finally block or has returned
HasReturnValue(p) == ret[p].statusCode # 0
\* a normal completion carries the counts per outcome category of its slice
C17_NormalReturnHasSummary ==
  \A p \in Invs :
    (HasReturnValue(p) /\ ret[p].statusCode = 200) =>
      /\ ret[p].hasStats
      /\ \A c \in Reasons :
           status[p] = "running" =>
             ret[p].stats.failureReasons[c] =
               Cardinality({x \in 1..Len(hf[p].out) : hf[p].out[x].reason = c})
\* C17: every value returned by an invocation - on normal completion, on
\* configuration error, when no site is found, and on a store failure -
\* reports the counts per outcome category.
C17_SummaryOnEveryReturn ==
  \A p \in Invs : HasReturnValue(p) => ret[p].hasStats

\* invocation p collects the outcome of a site in this step
Collects(p) ==
  /\ status[p] = "running"
  /\ status'[p] = "running"
  /\ Len(hf'[p].out) = Len(hf[p].out) + 1
Outcome(p) == hf'[p].out[Len(hf'[p].out)]
StoreSteps == {"findSensors", "findOne", "insertOne", "updateSensor", "updateStation"}
\* the part of the classification that the claim and the code share
C18_Ordered(p, r) ==
  /\ r.reason \in Reasons \cup {"success"}
  /\ r.reason = "missing_id" <=> MissingStationId(r.station)
  /\ r.reason = "no_data" =>
       /\ pc[p] = "fetch"
       /\ ~MissingStationId(r.station)
  /\ r.reason = "no_sensors" =>
       /\ pc[p] = "findSensors"
       /\ Len(sf[p].latestData) > 0
       /\ SensorsOf(r.station) = <<>>
  /\ r.reason = "error" =>
       /\ pc[p] \in StoreSteps
       /\ r.error # ""
       /\ ~r.success
  /\ r.reason \in {"success", "no_new_data"} =>
       /\ pc[p] \in {"findSensors", "updateSensor", "updateStation"}
       /\ Len(sf[p].latestData) > 0
       /\ SensorsOf(r.station) # <<>>
       /\ r.error = ""
       /\ r.recordsCreated = sf[p].recordsCreated
       /\ r.sensorsProcessed = sf[p].sensorsProcessed
  /\ r.reason = "success" <=> r.recordsCreated >= 1
  /\ r.success <=> r.reason = "success"
  /\ (pc[p] = "findSensors" /\ SensorsOf(r.station) = <<>>) =>
       r.reason \in {"no_sensors", "error"}
\* C18 as stated: one outcome per site in the order missing_id, no_data,
\* no_sensors, error, success, no_new_data, where no_new_data is the outcome of
\* a site whose sensors were processed but whose Measurement keys all existed,
\* and success is reported iff recordsCreated >= 1.
C18_AsStated ==
  \A p \in Invs :
    Collects(p) =>
      /\ C18_Ordered(p, Outcome(p))
      /\ Outcome(p).reason = "no_new_data" => Outcome(p).sensorsProcessed >= 1
C18_OutcomeOrder == [][C18_AsStated]_vars
\* zero readings never get past the no_data test
C18_NoDataFirst ==
  \A p \in Invs :
    (status[p] = "running" /\ pc[p] \in StoreSteps) => Len(sf[p].latestData) > 0
C18_Amended ==
  \A p \in Invs :
    Collects(p) =>
      /\ C18_Ordered(p, Outcome(p))
      /\ Outcome(p).reason = "no_new_data" =>
           /\ Outcome(p).recordsCreated = 0
           /\ \/ Outcome(p).sensorsProcessed >= 1
              \/ \A x \in SeqRange(SensorsOf(Outcome(p).station)) :
                   /\ HasRealValue(sf[p].latestData, SensorKey(x))
                   /\ EntryValue(sf[p].latestData, SensorKey(x)) = Null
\* C18, amended: one outcome per site in the order missing_id, no_data (no
\* reading, a failed fetch included), no_sensors, error with the message when a
\* store call throws, success iff recordsCreated >= 1 and nothing threw,
\* no_new_data otherwise: either sensors were processed and every key existed,
\* or no sensor was processed because every reading's value was null.
C18_OutcomeClassification == []C18_NoDataFirst /\ [][C18_Amended]_vars
\* a second run in the same hour found the key of station 1 and reported
\* no_new_data after a first run that reported success; both runs classified
\* the stations without id and without sensor
C18_Witness ==
  /\ triggers[1] = 0
  /\ status[1] = "running"
  /\ Len(hf[1].out) = Len(ClassPopulation)
  /\ {hf[1].out[x].reason : x \in 1..Len(hf[1].out)} =
       {"missing_id", "no_sensors", "no_new_data"}
  /\ \E x \in 1..Len(hf[1].out) :
       hf[1].out[x].reason = "no_new_data" /\ hf[1].out[x].sensorsProcessed = 1
  /\ Len(hourlymeasurements) = 1

\* invocation p ends in the handler's catch block with this message
EndsEarly(p, msg) ==
  /\ Running(p, "close")
  /\ ret[p].statusCode = 500
  /\ ret[p].message = msg
\* a throw of a store call inside processStation never ends the invocation:
\* every 500 comes from a call the handler itself makes
C19_SiteErrorsContained ==
  \A p \in Invs :
    (Running(p, "close") /\ ret[p].statusCode = 500) =>
      ret[p].message \in {"connect failed", "stations.find failed",
                          "lambjobprogress.updateOne failed"}
\* C19: once the store connection is established, the failure of a store
\* operation issued during batch processing (Measurement existence check or
\* insert, Sensor update, Site update, Checkpoint upsert) does not stop the
\* invocation before every batch of its slice has been processed; only
\* configuration errors and store-connection failures end it early.
C19_StoreErrorsNeverAbort ==
  \A p \in Invs :
    (Running(p, "close") /\ ret[p].statusCode = 500) =>
      EndsEarly(p, "connect failed")

LookupKey(m) ==
  IF m.matchType = "id" THEN NumberKey(m.dbStation.id)
  ELSE toLowerCase(m.dbStation.name)
\* the upstream sites, by position, that are candidates for the pair's local
\* site: same id for an id match, same lower-cased name for a name match
Candidates(m) ==
  {x \in 1..Len(mt.upstream) :
     IF m.matchType = "id" THEN mt.upstream[x].id = m.dbStation.id
     ELSE toLowerCase(mt.upstream[x].name) = toLowerCase(m.dbStation.name)}
\* the upstream sites, by position, stored under key k while the lookup is built
Writers(k) ==
  {x \in 1..Len(mt.upstream) :
     \/ ~Falsy(mt.upstream[x].id) /\ NumberKey(mt.upstream[x].id) = k
     \/ HasName(mt.upstream[x].name) /\ toLowerCase(mt.upstream[x].name) = k}
LastOf(S) == CHOOSE n \in S : \A m \in S : m <= n
Pairs == {mt.matchedStations[x] : x \in 1..Len(mt.matchedStations)}
\* C21 as stated: when several upstream sites are candidates for the same
\* local site, it is matched to the one that comes first in the upstream list.
C21_FirstCandidateWins ==
  \A m \in Pairs :
    Candidates(m) # {} => m.openaqLocation = mt.upstream[First(Candidates(m))]
\* C21, amended: the lookup is built by overwriting, so a local site is matched
\* to the upstream site that comes last in the upstream list among those stored
\* under the key looked up (the local id as text, else the lower-cased name).
C21_LastCandidateWins ==
  \A m \in Pairs :
    /\ Writers(LookupKey(m)) # {}
    /\ m.openaqLocation = mt.upstream[LastOf(Writers(LookupKey(m)))]
\* two upstream sites have the local site's lower-cased name and differ in id:
\* the local site is matched by name to the second
C21_Witness ==
  /\ mt.called
  /\ Len(mt.upstream) = 2
  /\ mt.upstream[1].id # mt.upstream[2].id
  /\ \E m \in Pairs :
       /\ m.matchType = "name"
       /\ Candidates(m) = {1, 2}
       /\ m.openaqLocation = mt.upstream[2]

\* the matched pair of the local site with this _id
PairOf(id) == CHOOSE m \in Pairs : m.dbStation._id = id
IsMatched(id) == \E m \in Pairs : m.dbStation._id = id
\* C22: for each matched pair an update of the local Site is issued iff the
\* local external id differs from the matched upstream id; an applied update
\* sets the local id to the upstream id with a snapshot of the upstream name,
\* coordinates and last-updated; a pair with equal ids, and every unmatched
\* site, leaves the Site unchanged; no Site is removed or added.
C22_IdentifierRepair ==
  mt.called =>
    /\ mt.issued =
         {m.dbStation._id : m \in {n \in Pairs : n.dbStation.id # n.openaqLocation.id}}
    /\ mt.updated \subseteq mt.issued
    /\ Len(mt.stored) = Len(mt.local)
    /\ \A x \in 1..Len(mt.local) :
         /\ mt.stored[x]._id = mt.local[x]._id
         /\ mt.stored[x].name = mt.local[x].name
         /\ IF mt.local[x]._id \in mt.updated
            THEN LET location == PairOf(mt.local[x]._id).openaqLocation
                 IN  /\ mt.stored[x].id = location.id
                     /\ mt.stored[x].id # mt.local[x].id
                     /\ mt.stored[x].openaqData.name = location.name
                     /\ mt.stored[x].openaqData.coordinates = location.coordinates
                     /\ mt.stored[x].openaqData.lastUpdated = location.lastUpdated
            ELSE mt.stored[x] = SiteDoc(mt.local[x])
\* one local site was matched by name to an upstream site with another id and
\* repaired, another was matched with equal ids and left as it was
C22_Witness ==
  /\ mt.called
  /\ Len(mt.local) = 2
  /\ mt.updated = {1}
  /\ PairOf(1).matchType = "name"
  /\ IsMatched(2)
  /\ PairOf(2).dbStation.id = PairOf(2).openaqLocation.id
  /\ mt.stored[1].id = PairOf(1).openaqLocation.id
  /\ mt.stored[2] = SiteDoc(mt.local[2])

\* invocation p of the sequential variant is inside processStation
InProcessStation(p) == status[p] = "running" /\ pc[p] \in {"fetch"} \cup StoreSteps
\* sequential variant: the one site being processed is the next without an
\* outcome, it belongs to the current batch, and every site before it is done
C23_OneAtATime ==
  \A p \in Invs :
    InProcessStation(p) =>
      /\ sf[p].station = hf[p].laStations[Len(hf[p].out) + 1]
      /\ Len(hf[p].out) = hf[p].i + hf[p].j
      /\ hf[p].j < batchSize
\* sequential variant: the loop moves to the next batch only from the
\* checkpoint upsert, with every site of the batch done, and reaches the
\* upsert of a batch that is not the last only through the inter-batch delay
C23_SequentialBatches ==
  \A p \in Invs :
    /\ (status[p] = "running" /\ status'[p] = "running" /\ hf'[p].i > hf[p].i) =>
         /\ pc[p] = "progress"
         /\ Len(hf[p].out) = Min(hf[p].i + batchSize, Len(hf[p].laStations))
    /\ (status[p] = "running" /\ pc'[p] = "progress" /\ pc[p] # "progress"
        /\ hf'[p].i + batchSize < Len(hf'[p].laStations)) =>
         pc[p] = "batchDelay"
    /\ (status[p] = "running" /\ pc'[p] = "batchDelay" /\ pc[p] # "batchDelay") =>
         Len(hf'[p].out) = hf'[p].i + batchSize
\* parallel variant: at most batchSize sites in flight, all of the current
\* batch, and none while a site of an earlier batch is unfinished
C23_AtMostBatchSize ==
  /\ Cardinality(par.running) <= batchSize_fixedIndex
  /\ par.running \subseteq (par.i + 1)..(par.i + batchSize_fixedIndex)
  /\ par.running \cap par.settled = {}
  /\ par.running # {} => (1..par.i) \subseteq par.settled
  /\ par.phase = "done" => par.settled = 1..par.total
\* parallel variant: a site of a later batch starts only when the timer of the
\* inter-batch delay fires, every site of the batch before being done
C23_ParallelBatches ==
  \A s \in par'.running \ par.running :
    s > batchSize_fixedIndex =>
      /\ par.phase = "delay"
      /\ par.running = {}
      /\ (1..(par'.i)) \subseteq par.settled
      /\ par'.delays = par.delays + 1
\* C23: within one invocation no site of batch k+1 starts being processed
\* until every site of batch k has finished and the inter-batch delay has
\* elapsed, and never more than batchSize sites are being processed at once
\* (one at a time in the sequential variant, at most five in the parallel one).
C23_BatchSequencing ==
  /\ [](C23_OneAtATime /\ C23_AtMostBatchSize)
  /\ [][C23_SequentialBatches /\ C23_ParallelBatches]_vars
\* parallel variant: the five sites of the first batch are done, the delay has
\* elapsed and the two sites of the second batch are in flight
C23_Witness ==
  /\ par.phase = "batch"
  /\ par.i = batchSize_fixedIndex
  /\ par.settled = 1..batchSize_fixedIndex
  /\ Cardinality(par.running) = 2
  /\ par.delays = 1

\* the clock hour of an instant, as the zone's clock shows it
ClockHour(t) == HourFromTime(LocalTime(t, al.tza))
\* C24: the alignment maps two instants of the same clock hour to the same
\* timestamp and two instants of different clock hours to different ones; the
\* result has minutes, seconds and milliseconds zero, is not later than the
\* input, and aligning an aligned timestamp returns it unchanged.
C24_HourAlignment ==
  al.done =>
    /\ (ClockHour(al.a) = ClockHour(al.b)) <=> (al.ra = al.rb)
    /\ MinFromTime(LocalTime(al.ra, al.tza)) = 0
    /\ SecFromTime(LocalTime(al.ra, al.tza)) = 0
    /\ msFromTime(LocalTime(al.ra, al.tza)) = 0
    /\ al.ra <= al.a
    /\ al.a - al.ra < msPerHour
    /\ al.rra = al.ra
    /\ al.ha = al.ra
\* two instants of one clock hour that differ in minutes, seconds and
\* milliseconds got the same timestamp, earlier than both
C24_Witness ==
  /\ al.done
  /\ MinFromTime(al.a) # MinFromTime(al.b)
  /\ SecFromTime(al.a) # SecFromTime(al.b)
  /\ msFromTime(al.a) # msFromTime(al.b)
  /\ al.ra = al.rb
  /\ al.ra < al.a
  /\ al.ra < al.b

\* the stored checkpoint says the cycle is complete
SaysComplete(d) == d.isFullyComplete /\ d.nextOffset = 0
\* C25: whenever the persisted Checkpoint has isFullyComplete = true and
\* nextOffset = 0, every site of the final slice [lastOffset, totalStations)
\* has been processed by the invocation that wrote it; a run terminated
\* part-way through the final slice never leaves a Checkpoint that says the
\* cycle is complete.
C25_Step ==
  \A p \in Invs :
    /\ Upserted(p) =>
         \A d \in lambjobprogress' :
           SaysComplete(d) => Len(hf[p].out) = d.totalStations - d.lastOffset
    /\ (Killed(p) /\ Len(hf[p].out) < Len(hf[p].laStations)) =>
         \A d \in lambjobprogress' : ~SaysComplete(d)
C25_CompleteMeansProcessed == [][C25_Step]_vars

\* invocation p has computed its aligned hour and is in the batch loop
HasCurrentTime(p) ==
  status[p] = "running" /\ pc[p] \notin {"connect", "findStations", "close", "done"}
MeasurementsBy(p) ==
  {x \in 1..Len(hourlymeasurements) : hourlymeasurements[x].by = p}
\* C26 as stated: every Measurement created by one invocation carries the
\* start of the hour in which the invocation began.
C26_HourOfInvocationStart ==
  \A p \in Invs :
    status[p] = "running" =>
      \A x \in MeasurementsBy(p) :
        hourlymeasurements[x].timestamp = AlignHour(hf[p].startTime)
C26_OneBucket ==
  /\ \A p \in Invs :
       HasCurrentTime(p) =>
         /\ AlignHour(hf[p].currentTime) = hf[p].currentTime
         /\ AlignHour(hf[p].startTime) <= hf[p].currentTime
         /\ hf[p].currentTime <= now
         /\ \A x \in MeasurementsBy(p) :
              hourlymeasurements[x].timestamp = hf[p].currentTime
  /\ \A x, y \in 1..Len(hourlymeasurements) :
       hourlymeasurements[x].by = hourlymeasurements[y].by =>
         hourlymeasurements[x].timestamp = hourlymeasurements[y].timestamp
C26_ComputedOnce ==
  \A p \in Invs :
    /\ (Running(p, "findStations") /\ HasCurrentTime(p)') =>
         hf'[p].currentTime = AlignHour(now)
    /\ (HasCurrentTime(p) /\ HasCurrentTime(p)') =>
         hf'[p].currentTime = hf[p].currentTime
\* C26, amended: the aligned hour is computed once, after the store connection
\* and the site query and before the first batch, from the wall clock of that
\* moment; every Measurement created by one invocation carries that timestamp,
\* which is the hour in which the invocation began or a later one, even when
\* the batches run past the next hour boundary, so a Measurement's timestamp
\* may differ from the aligned hour of the moment it is inserted.
C26_OneTimeBucket == []C26_OneBucket /\ [][C26_ComputedOnce]_vars
\* a Measurement inserted after the hour boundary carries the hour before
C26_Witness ==
  \E x \in 1..Len(hourlymeasurements) :
    /\ hourlymeasurements[x].timestamp < AlignHour(hourlymeasurements[x].createdAt)
    /\ status[hourlymeasurements[x].by] = "running"
    /\ hourlymeasurements[x].timestamp = hf[hourlymeasurements[x].by].currentTime

\* the sensors whose last write happened in the current aligned hour
ProcessedThisHour ==
  {s \in SensorIds : /\ sensors[s].lastUpdated # Undefined
                     /\ AlignHour(sensors[s].lastUpdated) = AlignHour(now)}
\* the Measurement of the key agrees with the Sensor's cached value and flag
Agrees(s, x) ==
  /\ hourlymeasurements[x].value = sensors[s].value
  /\ hourlymeasurements[x].isSimulated = sensors[s].isSimulated
\* C27 as stated: for every sensor processed in the current aligned hour the
\* Sensor's last-known value and isSimulated flag equal those of the
\* Measurement stored for (site, parameter name, current aligned hour).
C27_CacheAgreesWithRecord ==
  \A s \in ProcessedThisHour :
    /\ WithKey(SensorStation(s), ParamName(s), AlignHour(now)) # {}
    /\ \A x \in WithKey(SensorStation(s), ParamName(s), AlignHour(now)) : Agrees(s, x)
C27_Step ==
  \A p \in Invs :
    SensorUpdated(p) =>
      LET s == CurrentSensor(p)
          key == WithKey(sf[p].station, ParamName(s), hf[p].currentTime)
      IN  /\ sensors'[s].value = sf[p].value
          /\ sensors'[s].isSimulated = sf[p].isSimulated
          /\ sensors'[s].lastUpdated = now
          /\ key # {}
          /\ ~sf[p].existingRecord =>
               \A x \in key :
                 /\ hourlymeasurements[x].value = sensors'[s].value
                 /\ hourlymeasurements[x].isSimulated = sensors'[s].isSimulated
\* C27, amended: every write of a sensor leaves on the Sensor the value and
\* the flag of that write; they equal those of the Measurement of the run's
\* (site, parameter name, aligned hour) when that write created the
\* Measurement, and may differ from them when the Measurement already existed.
C27_CacheFollowsLastWrite == [][C27_Step]_vars
\* the second run of the hour found the Measurement of station 1 and left
\* another value on the Sensor
C27_Witness ==
  /\ 11 \in ProcessedThisHour
  /\ \E x \in WithKey(1, "pm25", AlignHour(now)) :
       /\ ~Agrees(11, x)
       /\ AlignHour(hourlymeasurements[x].createdAt) = AlignHour(now)

\* the value the sensor loop resolves for sensor x is not null: the payload has
\* no reading with a value for it (a simulated value is generated), or the
\* reading's value is not null
Resolved(latestData, x) ==
  HasRealValue(latestData, SensorKey(x)) => EntryValue(latestData, SensorKey(x)) # Null
\* invocation p ends the processing of a site in this step, past the guards and
\* without a throw
SiteCompleted(p) ==
  /\ status[p] = "running"
  /\ status'[p] = "running"
  /\ Len(hf'[p].out) = Len(hf[p].out) + 1
  /\ Last(hf'[p].out).reason \in {"success", "no_new_data"}
\* the Sensor x was written in the run of p, as the step ends
RefreshedInRun(p, x) == sensors'[x].lastUpdated >= hf[p].startTime
\* C28 as stated: when the processing of a site with a valid id, a non-empty
\* payload and at least one sensor ends without a throw, each of the site's
\* sensors was updated in that run and sensorsProcessed equals the number of the
\* site's sensors, whatever the readings' values, null included.
C28_EverySensorStep ==
  \A p \in Invs :
    SiteCompleted(p) =>
      /\ Last(hf'[p].out).sensorsProcessed = Len(SensorsOf(sf[p].station))
      /\ \A x \in SeqRange(SensorsOf(sf[p].station)) : RefreshedInRun(p, x)
C28_EverySensorRefreshed == [][C28_EverySensorStep]_vars
C28_Step ==
  \A p \in Invs :
    /\ SiteCompleted(p) =>
         LET resolved == {x \in SeqRange(SensorsOf(sf[p].station)) :
                            Resolved(sf[p].latestData, x)}
         IN  /\ Len(sf[p].latestData) > 0
             /\ SensorsOf(sf[p].station) # <<>>
             /\ Last(hf'[p].out).sensorsProcessed = Cardinality(resolved)
             /\ \A x \in resolved : RefreshedInRun(p, x)
    /\ SensorUpdated(p) =>
         /\ sf[p].value # Null
         /\ Resolved(sf[p].latestData, CurrentSensor(p))
         /\ \A x \in SensorIds \ {CurrentSensor(p)} : sensors'[x] = sensors[x]
\* C28, amended: when the processing of a site with a valid id, a non-empty
\* payload and at least one sensor ends without a throw, each sensor whose
\* reading is absent, without a value, or not null was updated in that run, and
\* sensorsProcessed is the number of those sensors; a sensor whose reading's
\* value is null is skipped: the run never writes it and does not count it.
C28_NonNullSensorsRefreshed == [][C28_Step]_vars
\* station 5 was completed with a null reading for its first sensor: one sensor
\* processed of two, the first Sensor still as created
C28_Witness ==
  \E p \in Invs :
    \E n \in 1..Len(hf[p].out) :
      /\ hf[p].out[n].station = 5
      /\ hf[p].out[n].reason = "success"
      /\ hf[p].out[n].sensorsProcessed = 1
      /\ sensors[51] = SensorSet(SensorDefaultValue, Undefined, FALSE)
      /\ sensors[52].lastUpdated # Undefined

\* C29 as stated: whenever the matcher returns a pair with matchType 'id', the
\* upstream site of the pair has an id equal to the local site's external id
\* (an upstream site whose lower-cased name equals an id written as text never
\* replaces the id-keyed entry), and a local site whose external id is 0 is
\* still matched by id.
C29_IdMatchesGenuine ==
  /\ \A m \in Pairs : m.matchType = "id" => m.openaqLocation.id = m.dbStation.id
  /\ Matched =>
       \A x \in 1..Len(mt.local) :
         mt.local[x].id = 0 /\ SameId(mt.local[x]) => mt.local[x]._id \in MatchedAs("id")
\* what the lookup does give for a pair with matchType 'id': a local id other
\* than 0, and an upstream site that has that id or whose lower-cased name is
\* that id written as text
C29_IdPairKeyed ==
  \A m \in Pairs :
    m.matchType = "id" =>
      /\ ~Falsy(m.dbStation.id)
      /\ \/ m.openaqLocation.id = m.dbStation.id
         \/ toLowerCase(m.openaqLocation.name) = NumberKey(m.dbStation.id)

\* the sum of the counts of results.failureReasons
ReasonsTotal(failureReasons) ==
  failureReasons["missing_id"] + failureReasons["no_data"] + failureReasons["no_sensors"]
  + failureReasons["no_new_data"] + failureReasons["error"] + failureReasons["unknown"]
\* the batch results are aggregated and the next batch has not begun, or the
\* batch loop is over
Aggregated(p) == BetweenBatches(p) \/ Completed(p)
\* successful + failed is the number of sites processed so far, and the reasons
\* add up to failed; at normal completion that number is the slice length
C30_SiteCounts ==
  \A p \in Invs :
    /\ Aggregated(p) =>
         /\ hf[p].results.successful + hf[p].results.failed = Len(hf[p].out)
         /\ ReasonsTotal(hf[p].results.failureReasons) = hf[p].results.failed
         /\ hf[p].results.recordsCreated <= hf[p].results.sensorsProcessed
         /\ hf[p].results.total = Len(hf[p].laStations)
    /\ Completed(p) =>
         /\ ret[p].stats = hf[p].results
         /\ ret[p].stats.successful + ret[p].stats.failed = ret[p].stats.total
\* the Measurements invocation p inserted for sites whose outcome is success
InsertedForSuccess(p) ==
  {x \in MeasurementsBy(p) :
     \E n \in 1..Len(hf[p].out) :
       hf[p].out[n].station = hourlymeasurements[x].station /\ hf[p].out[n].success}
\* C30 as stated: after every batch successful + failed equals the number of
\* sites of the slice processed so far and the failureReasons counts add up to
\* failed; on normal completion successful + failed equals the slice length,
\* recordsCreated equals the number of Measurements the invocation inserted,
\* and recordsCreated <= sensorsProcessed.
C30_SummaryAccounting ==
  /\ C30_SiteCounts
  /\ \A p \in Invs :
       Completed(p) => ret[p].stats.recordsCreated = Cardinality(MeasurementsBy(p))
\* C30, amended: the site counts as stated; recordsCreated counts the
\* Measurements inserted for the sites whose outcome is success, so it is at
\* most the number of Measurements the invocation inserted and falls short of
\* it by those of the sites that ended with outcome error after an insert.
C30_SuccessAccounting ==
  /\ C30_SiteCounts
  /\ \A p \in Invs :
       Aggregated(p) =>
         /\ hf[p].results.recordsCreated = Cardinality(InsertedForSuccess(p))
         /\ hf[p].results.recordsCreated <= Cardinality(MeasurementsBy(p))
\* a run completed normally with a successful site and a site that ended with
\* outcome error after its Measurement was inserted
C30_Witness ==
  /\ Completed(1)
  /\ ret[1].stats.successful >= 1
  /\ ret[1].stats.failureReasons["error"] >= 1
  /\ ret[1].stats.recordsCreated < Cardinality(MeasurementsBy(1))

====
